---- MODULE Spec2Model ----
(***************************************************************************)
(* Pong Evolution (src/pong-evolution/game.js): the genetic-algorithm      *)
(* tournament engine.  Players are objects on a heap (players), referred   *)
(* to by identifier from the population and from the bracket's slots, as   *)
(* the JavaScript objects are referred to by reference.                    *)
(*                                                                         *)
(* Real numbers are fixed-point integers in thousandths: a gene value of   *)
(* 0.3 is 300, Math.random() returning 0.9 is 900.  Divisions round down.  *)
(***************************************************************************)
EXTENDS Integers, Sequences, FiniteSets, TLC

\* ------------------------------------------------------------ bounds
\* Largest population explored (sizes 1..MaxPop).
MaxPop == 5
\* Largest matchesPerPairing (best-of-M) and pointsToWin explored.
MaxSeries == 3
MaxPoints == 2
\* A configuration is explored when its tournament stays within MaxWork:
\* (n - 1) series of up to m games of up to p points a side, once for every
\* value Math.random() can return in the run.
MaxWork == 6
\* Tournaments run per Start: as many as breed at most MaxBred children when
\* Math.random() ranges over all of RandAll, and as many as seat at most
\* MaxSeats players when it returns 0 only (at least one in both cases).
MaxBred == 2
MaxSeats == 8
\* The update() calls explored in one game, and the games in one series.
MaxUpdates == 240
MaxGames == 2
\* The significant bits of the floating-point arithmetic, and the children
\* bred from a pair of genomes.
SigBits == 5
MaxChildren == 2
\* Reset is clicked while fewer than MaxNames players have been named.
MaxNames == 6
\* Animation-frame callbacks requested at a time
MaxFrames == 2
\* Genome objects created in a run
MaxObjects == 5

\* The values Math.random() returns, in thousandths.  0 is below every
\* threshold the code compares a draw with (0.5, 0.3, a positive mutation
\* rate); 900 is above 0.5 and 0.3 and is a proper blend factor.
RandAll == {0, 900}
RandZero == {0}
\* Population sizes explored with all of RandAll; larger ones draw 0 only.
VariedSizes == {2, 3}
\* Mutation rates (the UI's mutation-rate value), in thousandths; one rate
\* when Math.random() returns 0 only (every gene is then selected for
\* mutation).
Rates == {0, 500, 1000}
ZeroRates == {1000}

NULL == 0

\* ------------------------------------------------------------ genome
GENE_DEFINITIONS ==
    [ trackingWeight     |-> [min |-> 0,      max |-> 1000],
      predictionWeight   |-> [min |-> 0,      max |-> 1000],
      predictionFrames   |-> [min |-> 5000,   max |-> 60000],
      centerBias         |-> [min |-> 0,      max |-> 1000],
      aggressiveness     |-> [min |-> 0,      max |-> 1000],
      sweetSpotOffset    |-> [min |-> 0 - 500, max |-> 500],
      reactionDelay      |-> [min |-> 0,      max |-> 10000],
      movementSmoothing  |-> [min |-> 0,      max |-> 900],
      defensiveThreshold |-> [min |-> 300,    max |-> 700],
      offensiveAngling   |-> [min |-> 0,      max |-> 1000],
      errorRate          |-> [min |-> 0,      max |-> 300],
      jitterAmount       |-> [min |-> 0,      max |-> 5000] ]

GeneNames == DOMAIN GENE_DEFINITIONS

\* F(x) with x evaluated once, where a LET would evaluate it at every use.
Let(x, F(_)) == CHOOSE y \in {F(v) : v \in {x}} : TRUE

\* The genes whose draws range over the run's random values; the draws for
\* every other gene are 0 (a bound on the explored outcomes of Math.random).
VariedGenes == {"reactionDelay"}

\* One draw of Math.random() per gene.
GeneDraws(rand) ==
    { [g \in GeneNames |-> IF g \in VariedGenes THEN v[g] ELSE 0] :
        v \in [VariedGenes -> rand] }

Min(a, b) == IF a < b THEN a ELSE b
Max(a, b) == IF a > b THEN a ELSE b

\* createRandomGenome: def.min + Math.random() * (def.max - def.min)
createRandomGenome(draw) ==
    [g \in GeneNames |->
        GENE_DEFINITIONS[g].min
          + (draw[g] * (GENE_DEFINITIONS[g].max - GENE_DEFINITIONS[g].min)) \div 1000]

\* crossover: per gene a 50/50 pick, then with probability 0.3 a blend that
\* overrides the pick.
crossover(parent1, parent2, pick, chance, blend) ==
    [g \in GeneNames |->
        IF chance[g] < 300
        THEN (parent1[g] * blend[g] + parent2[g] * (1000 - blend[g])) \div 1000
        ELSE IF pick[g] < 500 THEN parent1[g] ELSE parent2[g]]

\* The mutation added to a selected gene: (Math.random() - 0.5) * range * 0.4
Mutation(g, amount) ==
    ((amount - 500) * (GENE_DEFINITIONS[g].max - GENE_DEFINITIONS[g].min) * 4) \div 10000

\* mutate: a copy of the genome; each gene with Math.random() < mutationRate
\* gets a mutation and is clamped to [def.min, def.max].
mutate(genome, mutationRate, chance, amount) ==
    [g \in GeneNames |->
        IF chance[g] < mutationRate
        THEN Max(GENE_DEFINITIONS[g].min,
                 Min(GENE_DEFINITIONS[g].max, genome[g] + Mutation(g, amount[g])))
        ELSE genome[g]]

\* ------------------------------------------------------------ genome, in floating point
\* The same three functions as the JavaScript engine computes them: every
\* literal, sum and product is a binary floating-point number, rounded to
\* the nearest one (ties to even).  A Number has 53 significant bits; the
\* arithmetic here has SigBits, and a number is written as an integer count
\* of Unit-ths.
RECURSIVE Pow2(_)
Pow2(k) == IF k = 0 THEN 1 ELSE 2 * Pow2(k - 1)

Unit == Pow2(12)

Significands == Pow2(SigBits)

\* The spacing of the numbers around num / den: the least power of two q
\* with num / den < 2^SigBits * q.
RECURSIVE Quantum(_, _, _)
Quantum(num, den, q) ==
    IF num >= Significands * q * den THEN Quantum(num, den, 2 * q) ELSE q

\* The number nearest to num / den >= 0, ties to the even significand
RoundAbs(num, den) ==
    Let(Quantum(num, den, 1), LAMBDA q :
      Let(num \div (q * den), LAMBDA k :
        Let(num - k * q * den, LAMBDA r :
          IF 2 * r > q * den \/ (2 * r = q * den /\ k % 2 = 1)
          THEN (k + 1) * q ELSE k * q)))

Fl(num, den) == IF num < 0 THEN 0 - RoundAbs(0 - num, den) ELSE RoundAbs(num, den)

\* A decimal literal of the source, given in thousandths
Lit(t) == Fl(t * Unit, 1000)
\* a + b, a - b and a * b
FlAdd(a, b) == Fl(a + b, 1)
FlSub(a, b) == Fl(a - b, 1)
FlMul(a, b) == Fl(a * b, Unit)

\* The literals 0.5, 0.3 and 0.4 of crossover and mutate
Half == Lit(500)
BlendChance == Lit(300)
MutationScale == Lit(400)

\* GENE_DEFINITIONS as the numbers its literals denote
FlGenes ==
    [g \in GeneNames |-> [min |-> Lit(GENE_DEFINITIONS[g].min),
                          max |-> Lit(GENE_DEFINITIONS[g].max)]]

\* createRandomGenome: def.min + Math.random() * (def.max - def.min)
createRandomGenomeFl(draw) ==
    [g \in GeneNames |->
        FlAdd(FlGenes[g].min, FlMul(draw[g], FlSub(FlGenes[g].max, FlGenes[g].min)))]

\* crossover: parent1[gene] * blend + parent2[gene] * (1 - blend) overrides
\* the pick when the second draw is below 0.3.
crossoverFl(parent1, parent2, pick, chance, blend) ==
    [g \in GeneNames |->
        IF chance[g] < BlendChance
        THEN FlAdd(FlMul(parent1[g], blend[g]),
                   FlMul(parent2[g], FlSub(Unit, blend[g])))
        ELSE IF pick[g] < Half THEN parent1[g] ELSE parent2[g]]

\* (Math.random() - 0.5) * range * 0.4
MutationFl(g, amount) ==
    FlMul(FlMul(FlSub(amount, Half), FlSub(FlGenes[g].max, FlGenes[g].min)),
          MutationScale)

\* mutate: Math.max(def.min, Math.min(def.max, mutated[gene] + mutation)) for
\* the genes whose draw is below mutationRate
mutateFl(genome, mutationRate, chance, amount) ==
    [g \in GeneNames |->
        IF chance[g] < mutationRate
        THEN Max(FlGenes[g].min,
                 Min(FlGenes[g].max, FlAdd(genome[g], MutationFl(g, amount[g]))))
        ELSE genome[g]]

\* ------------------------------------------------------------ player
\* new Player(genome, name, generation): the statistics start at zero.
\* A name is modelled by the number that makes it unique.  runtime stands
\* for reactionCounter, lastTargetY and smoothedY: "initial" as the
\* constructor sets them, "played" once a game has called calculateTarget on
\* the object (the values themselves are followed in the games of SpecPong).
NewPlayer(genome, name, generation) ==
    [ genome |-> genome, name |-> name, generation |-> generation,
      wins |-> 0, losses |-> 0, pointsFor |-> 0, pointsAgainst |-> 0,
      matchesPlayed |-> 0, fitness |-> 0, runtime |-> "initial" ]

\* Math.round(x / d) for d > 0: the nearest integer, halves rounded up.
RoundDiv(x, d) == (2 * x + d) \div (2 * d)

\* calculateFitness without its guard: the quotient 0 / 0 of an agent that
\* played no match is not 0 (NaN, written as -1).
calculateFitnessUnguarded(p) ==
    [p EXCEPT !.fitness =
        IF p.matchesPlayed = 0 THEN 0 - 1
        ELSE RoundDiv(1000 * p.wins + 10 * (p.pointsFor - p.pointsAgainst),
                      p.matchesPlayed)]

\* calculateFitness with Math.floor for Math.round
calculateFitnessFloor(p) ==
    IF p.matchesPlayed = 0
    THEN [p EXCEPT !.fitness = 0]
    ELSE [p EXCEPT !.fitness =
            (1000 * p.wins + 10 * (p.pointsFor - p.pointsAgainst)) \div p.matchesPlayed]

\* Player.calculateFitness
\* Math.round(winRate * 1000 + avgPointDiff * 10), 0 when no match was played.
calculateFitness(p) ==
    IF p.matchesPlayed = 0
    THEN [p EXCEPT !.fitness = 0]
    ELSE [p EXCEPT !.fitness =
            RoundDiv(1000 * p.wins + 10 * (p.pointsFor - p.pointsAgainst),
                     p.matchesPlayed)]

\* Player.resetStats
resetStats(p) ==
    [p EXCEPT !.wins = 0, !.losses = 0, !.pointsFor = 0, !.pointsAgainst = 0,
              !.matchesPlayed = 0, !.fitness = 0]

\* ------------------------------------------------------------ tournament
\* A bracket slot.  player1, player2 and winner are player identifiers or
\* NULL; scores is the list of recorded games, each <<left, right>>.
MatchSlot(p1, p2) ==
    [player1 |-> p1, player2 |-> p2, winner |-> NULL, scores |-> <<>>,
     completed |-> FALSE]

\* A bye recorded as a walkover game.
ByeSlotWalkover(p) ==
    [player1 |-> p, player2 |-> NULL, winner |-> p, scores |-> <<<<1, 0>>>>,
     completed |-> TRUE]

\* A bye left for getNextMatch to complete.
ByeSlotPending(p) == MatchSlot(p, NULL)

\* The odd player's slot of round 1: completed at once, no games.
ByeSlot(p) ==
    [player1 |-> p, player2 |-> NULL, winner |-> p, scores |-> <<>>,
     completed |-> TRUE]

\* Math.ceil(Math.log2(n)) for n >= 1
RECURSIVE CeilLog2From(_, _, _)
CeilLog2From(n, k, pow) == IF pow >= n THEN k ELSE CeilLog2From(n, k + 1, 2 * pow)
\* Math.floor(Math.log2(n)) for n >= 1
FloorLog2(n) == CeilLog2From(n + 1, 0, 1) - 1
CeilLog2(n) == CeilLog2From(n, 0, 1)

\* Math.ceil(x / 2)
CeilHalf(x) == (x + 1) \div 2

\* generateBracket, first round: consecutive players are paired, an odd
\* last player gets a bye.
FirstRound(shuffled) ==
    [k \in 1..CeilHalf(Len(shuffled)) |->
        IF 2 * k <= Len(shuffled)
        THEN MatchSlot(shuffled[2 * k - 1], shuffled[2 * k])
        ELSE ByeSlot(shuffled[2 * k - 1])]

\* generateBracket, the empty rounds r .. numRounds - 1
RECURSIVE LaterRounds(_, _, _)
LaterRounds(r, numRounds, matchesInRound) ==
    IF r < numRounds
    THEN <<[m \in 1..matchesInRound |-> MatchSlot(NULL, NULL)]>>
            \o LaterRounds(r + 1, numRounds, CeilHalf(matchesInRound))
    ELSE <<>>

\* Tournament.generateBracket on the shuffled players
generateBracket(shuffled) ==
    <<FirstRound(shuffled)>>
       \o LaterRounds(1, CeilLog2(Len(shuffled)), CeilHalf(Len(FirstRound(shuffled))))

\* A shuffle that puts the first player in the second place as well
ShufflesFirstTwice(ps) ==
    { [i \in 1..Len(ps) |-> ps[IF i = 2 THEN 1 ELSE i]] }

\* The orders [...players].sort(() => Math.random() - 0.5) can leave the
\* players in: the comparator is inconsistent, so any permutation.
Shuffles(ps) ==
    { [i \in 1..Len(ps) |-> ps[f[i]]] :
        f \in { g \in [1..Len(ps) -> 1..Len(ps)] :
                   \A i, j \in 1..Len(ps) : i # j => g[i] # g[j] } }

\* updateBracketPlayers without the propagation of byes
UpdateSlotNoBye(prevRound, match, m) ==
    [match EXCEPT
        !.player1 = IF 2 * m + 1 <= Len(prevRound) /\ prevRound[2 * m + 1].completed
                       /\ match.player1 = NULL
                    THEN prevRound[2 * m + 1].winner ELSE match.player1,
        !.player2 = IF 2 * m + 2 <= Len(prevRound) /\ prevRound[2 * m + 2].completed
                       /\ match.player2 = NULL
                    THEN prevRound[2 * m + 2].winner ELSE match.player2]

\* updateBracketPlayers taking player1 from the second source slot and
\* player2 from the first
UpdateSlotSwapped(prevRound, match, m) ==
    LET has1 == 2 * m + 1 <= Len(prevRound)
        has2 == 2 * m + 2 <= Len(prevRound)
        p1 == IF has2 /\ prevRound[2 * m + 2].completed /\ match.player1 = NULL
              THEN prevRound[2 * m + 2].winner
              ELSE IF ~has2 /\ has1 /\ prevRound[2 * m + 1].completed
                      /\ match.player1 = NULL
              THEN prevRound[2 * m + 1].winner ELSE match.player1
        p2 == IF has2 /\ has1 /\ prevRound[2 * m + 1].completed /\ match.player2 = NULL
              THEN prevRound[2 * m + 1].winner ELSE match.player2
    IN  IF p1 # NULL /\ p2 = NULL /\ ~has2
        THEN [match EXCEPT !.player1 = p1, !.player2 = p2,
                           !.winner = p1, !.completed = TRUE]
        ELSE [match EXCEPT !.player1 = p1, !.player2 = p2]

\* updateBracketPlayers filling player1 only
UpdateSlotFirstOnly(prevRound, match, m) ==
    [match EXCEPT
        !.player1 = IF 2 * m + 1 <= Len(prevRound) /\ prevRound[2 * m + 1].completed
                       /\ match.player1 = NULL
                    THEN prevRound[2 * m + 1].winner ELSE match.player1]

\* updateBracketPlayers, one slot: match is slot m (from 0) of a round whose
\* previous round is prevRound.
UpdateSlot(prevRound, match, m) ==
    LET has1 == 2 * m + 1 <= Len(prevRound)
        has2 == 2 * m + 2 <= Len(prevRound)
        p1 == IF has1 /\ prevRound[2 * m + 1].completed /\ match.player1 = NULL
              THEN prevRound[2 * m + 1].winner ELSE match.player1
        p2 == IF has2 /\ prevRound[2 * m + 2].completed /\ match.player2 = NULL
              THEN prevRound[2 * m + 2].winner ELSE match.player2
    IN  IF p1 # NULL /\ p2 = NULL /\ ~has2
        THEN [match EXCEPT !.player1 = p1, !.player2 = p2,
                           !.winner = p1, !.completed = TRUE]
        ELSE [match EXCEPT !.player1 = p1, !.player2 = p2]

\* Tournament.updateBracketPlayers: rounds 1 .. length - 1 in order, each
\* reading the previous round as already updated.
RECURSIVE UpdateRounds(_, _)
UpdateRounds(b, r) ==
    IF r >= Len(b) THEN b
    ELSE Let([b EXCEPT ![r + 1] =
                [m \in 1..Len(b[r + 1]) |-> UpdateSlot(b[r], b[r + 1][m], m - 1)]],
             LAMBDA updated : UpdateRounds(updated, r + 1))
updateBracketPlayers(b) == UpdateRounds(b, 1)

\* A getNextMatch that passes over the first slot of the first round when the
\* round has another slot
RECURSIVE getNextMatchPassFirst(_, _, _)
getNextMatchPassFirst(b, r, m) ==
    IF r >= Len(b)
    THEN [bracket |-> b, currentRound |-> r, currentMatch |-> m, ret |-> <<>>]
    ELSE IF m >= Len(b[r + 1])
    THEN getNextMatchPassFirst(b, r + 1, 0)
    ELSE IF b[r + 1][m + 1].completed \/ (r = 0 /\ m = 0 /\ Len(b[1]) > 1)
    THEN getNextMatchPassFirst(b, r, m + 1)
    ELSE LET b2 == IF r > 0 THEN updateBracketPlayers(b) ELSE b
             match == b2[r + 1][m + 1]
         IN  IF r > 0 /\ (match.player1 = NULL \/ match.player2 = NULL)
             THEN getNextMatchPassFirst(b2, r, m + 1)
             ELSE IF match.player1 # NULL /\ match.player2 # NULL
             THEN [bracket |-> b2, currentRound |-> r, currentMatch |-> m,
                   ret |-> <<r, m>>]
             ELSE IF match.player1 # NULL /\ match.player2 = NULL
             THEN getNextMatchPassFirst(
                      [b2 EXCEPT ![r + 1][m + 1].winner = match.player1,
                                 ![r + 1][m + 1].completed = TRUE], r, m + 1)
             ELSE getNextMatchPassFirst(b2, r, m + 1)

\* Tournament.getNextMatch from (currentRound, currentMatch) = (r, m), both
\* counted from 0.  ret is the slot returned, <<round, index>>, or <<>> for
\* null.
RECURSIVE getNextMatch(_, _, _)
getNextMatch(b, r, m) ==
    IF r >= Len(b)
    THEN [bracket |-> b, currentRound |-> r, currentMatch |-> m, ret |-> <<>>]
    ELSE IF m >= Len(b[r + 1])
    THEN getNextMatch(b, r + 1, 0)
    ELSE IF b[r + 1][m + 1].completed
    THEN getNextMatch(b, r, m + 1)
    ELSE Let(IF r > 0 THEN updateBracketPlayers(b) ELSE b, LAMBDA b2 :
           LET match == b2[r + 1][m + 1]
           IN  IF r > 0 /\ (match.player1 = NULL \/ match.player2 = NULL)
               THEN getNextMatch(b2, r, m + 1)
               ELSE IF match.player1 # NULL /\ match.player2 # NULL
               THEN [bracket |-> b2, currentRound |-> r, currentMatch |-> m,
                     ret |-> <<r, m>>]
               ELSE IF match.player1 # NULL /\ match.player2 = NULL
               THEN Let([b2 EXCEPT ![r + 1][m + 1].winner = match.player1,
                                   ![r + 1][m + 1].completed = TRUE],
                        LAMBDA b3 : getNextMatch(b3, r, m + 1))
               ELSE getNextMatch(b2, r, m + 1))

\* A series played until one side has won matchesPerPairing games
WinsNeededAll(matchesPerPairing) == matchesPerPairing

\* Math.ceil(matchesPerPairing / 2)
WinsNeeded(matchesPerPairing) == CeilHalf(matchesPerPairing)

\* The games of a score list counted for player1 (left > right) and for
\* player2 (every other game).
P1Wins(scores) == Cardinality({i \in 1..Len(scores) : scores[i][1] > scores[i][2]})
P2Wins(scores) == Cardinality({i \in 1..Len(scores) : ~(scores[i][1] > scores[i][2])})

RECURSIVE SumLeft(_)
SumLeft(scores) == IF scores = <<>> THEN 0 ELSE Head(scores)[1] + SumLeft(Tail(scores))
RECURSIVE SumRight(_)
SumRight(scores) == IF scores = <<>> THEN 0 ELSE Head(scores)[2] + SumRight(Tail(scores))

\* The statistics of a decided series with the points of its last game only
SeriesStatsLastGame(ps, match, winner, loser) ==
    LET last == match.scores[Len(match.scores)]
    IN  [id \in DOMAIN ps |->
            [ps[id] EXCEPT
                !.wins = @ + (IF id = winner THEN 1 ELSE 0),
                !.losses = @ + (IF id = loser THEN 1 ELSE 0),
                !.matchesPlayed = @ + (IF id \in {winner, loser} THEN 1 ELSE 0),
                !.pointsFor = @ + (IF id = match.player1 THEN last[1]
                                   ELSE IF id = match.player2 THEN last[2] ELSE 0),
                !.pointsAgainst = @ + (IF id = match.player1 THEN last[2]
                                       ELSE IF id = match.player2 THEN last[1] ELSE 0)]]

\* The statistics of a decided series without the loser's loss
SeriesStatsNoLoss(ps, match, winner, loser) ==
    [id \in DOMAIN ps |->
        [ps[id] EXCEPT
            !.wins = @ + (IF id = winner THEN 1 ELSE 0),
            !.matchesPlayed = @ + (IF id \in {winner, loser} THEN 1 ELSE 0),
            !.pointsFor = @ + (IF id = match.player1 THEN SumLeft(match.scores)
                               ELSE IF id = match.player2 THEN SumRight(match.scores)
                               ELSE 0),
            !.pointsAgainst = @ + (IF id = match.player1 THEN SumRight(match.scores)
                                   ELSE IF id = match.player2 THEN SumLeft(match.scores)
                                   ELSE 0)]]

\* recordResult, the statistics of a decided series: the winner's and the
\* loser's counters, and both players' points over all games of the series.
SeriesStats(ps, match, winner, loser) ==
    [id \in DOMAIN ps |->
        LET a == ps[id]
            b == IF id = winner
                 THEN [a EXCEPT !.wins = @ + 1, !.matchesPlayed = @ + 1]
                 ELSE a
            c == IF id = loser
                 THEN [b EXCEPT !.losses = @ + 1, !.matchesPlayed = @ + 1]
                 ELSE b
            d == IF id = match.player1
                 THEN [c EXCEPT !.pointsFor = @ + SumLeft(match.scores),
                                !.pointsAgainst = @ + SumRight(match.scores)]
                 ELSE c
        IN  IF id = match.player2
            THEN [d EXCEPT !.pointsFor = @ + SumRight(match.scores),
                           !.pointsAgainst = @ + SumLeft(match.scores)]
            ELSE d]

\* A recordResult that adds each game's points to the two players as the game
\* is recorded
recordResultEager(b, res, ps, matchesPerPairing, ref, leftScore, rightScore) ==
    LET r == ref[1] + 1
        m == ref[2] + 1
        scores == Append(b[r][m].scores, <<leftScore, rightScore>>)
        p1Wins == P1Wins(scores)
        p2Wins == P2Wins(scores)
        winner == IF p1Wins > p2Wins THEN b[r][m].player1 ELSE b[r][m].player2
        loser == IF winner = b[r][m].player1 THEN b[r][m].player2 ELSE b[r][m].player1
        match == [b[r][m] EXCEPT !.scores = scores, !.winner = winner,
                                 !.completed = TRUE]
        game == [b[r][m] EXCEPT !.scores = <<<<leftScore, rightScore>>>>]
        counted == [id \in DOMAIN ps |->
                      IF id = winner THEN [ps[id] EXCEPT !.wins = @ + 1, !.matchesPlayed = @ + 1]
                      ELSE IF id = loser
                      THEN [ps[id] EXCEPT !.losses = @ + 1, !.matchesPlayed = @ + 1]
                      ELSE ps[id]]
    IN  IF p1Wins >= WinsNeeded(matchesPerPairing) \/ p2Wins >= WinsNeeded(matchesPerPairing)
        THEN IF winner = NULL \/ loser = NULL
             THEN [bracket |-> [b EXCEPT ![r][m] = match],
                   players |-> ps, results |-> res, complete |-> FALSE,
                   error |-> "TypeError"]
             ELSE [bracket |-> [b EXCEPT ![r][m] = match],
                   players |-> SeriesStats(counted, game, NULL, NULL),
                   results |-> Append(res, [winner |-> ps[winner].name,
                                            loser |-> ps[loser].name,
                                            scores |-> scores]),
                   complete |-> TRUE, error |-> "none"]
        ELSE [bracket |-> [b EXCEPT ![r][m].scores = scores],
              players |-> SeriesStats(ps, game, NULL, NULL),
              results |-> res, complete |-> FALSE,
              error |-> "none"]

\* Tournament.recordResult(match, leftScore, rightScore) on the slot at ref.
\* winner.wins++ and loser.losses++ throw a TypeError when the slot lacks a
\* player.
recordResult(b, res, ps, matchesPerPairing, ref, leftScore, rightScore) ==
    LET r == ref[1] + 1
        m == ref[2] + 1
    IN
    Let(Append(b[r][m].scores, <<leftScore, rightScore>>), LAMBDA scores :
    LET p1Wins == P1Wins(scores)
        p2Wins == P2Wins(scores)
        winner == IF p1Wins > p2Wins THEN b[r][m].player1 ELSE b[r][m].player2
        loser == IF winner = b[r][m].player1 THEN b[r][m].player2 ELSE b[r][m].player1
        match == [b[r][m] EXCEPT !.scores = scores, !.winner = winner,
                                 !.completed = TRUE]
    IN  IF p1Wins >= WinsNeeded(matchesPerPairing) \/ p2Wins >= WinsNeeded(matchesPerPairing)
        THEN IF winner = NULL \/ loser = NULL
             THEN [bracket |-> [b EXCEPT ![r][m] = match],
                   players |-> ps, results |-> res, complete |-> FALSE,
                   error |-> "TypeError"]
             ELSE [bracket |-> [b EXCEPT ![r][m] = match],
                   players |-> SeriesStats(ps, match, winner, loser),
                   results |-> Append(res, [winner |-> ps[winner].name,
                                            loser |-> ps[loser].name,
                                            scores |-> scores]),
                   complete |-> TRUE, error |-> "none"]
        ELSE [bracket |-> [b EXCEPT ![r][m].scores = scores],
              players |-> ps, results |-> res, complete |-> FALSE,
              error |-> "none"])

\* isComplete reading the first round's first slot
isCompleteFirstRound(b) ==
    IF Len(b) = 0 THEN TRUE
    ELSE Len(b[1]) >= 1 /\ b[1][1].completed

\* Tournament.isComplete
isComplete(b) ==
    IF Len(b) = 0 THEN TRUE
    ELSE Len(b[Len(b)]) >= 1 /\ b[Len(b)][1].completed

\* getWinner reading the first round's first slot
getWinnerFirstSlot(b) == IF ~isComplete(b) THEN NULL ELSE b[1][1].winner

\* Tournament.getWinner
getWinner(b) == IF ~isComplete(b) THEN NULL ELSE b[Len(b)][1].winner

\* ------------------------------------------------------------ evolution
Range(seq) == {seq[i] : i \in 1..Len(seq)}

\* Array.prototype.sort((a, b) => b.fitness - a.fitness): descending by
\* fitness, stable.  InsertByFitness puts id after every element that is at
\* least as fit.
InsertByFitness(sorted, id, ps) ==
    LET k == Cardinality({i \in 1..Len(sorted) : ps[sorted[i]].fitness >= ps[id].fitness})
    IN  SubSeq(sorted, 1, k) \o <<id>> \o SubSeq(sorted, k + 1, Len(sorted))

RECURSIVE SortByFitnessFrom(_, _, _)
SortByFitnessFrom(sorted, rest, ps) ==
    IF rest = <<>> THEN sorted
    ELSE Let(InsertByFitness(sorted, Head(rest), ps),
             LAMBDA inserted : SortByFitnessFrom(inserted, Tail(rest), ps))
SortByFitness(pop, ps) == SortByFitnessFrom(<<>>, pop, ps)

\* EvolutionManager.tournamentSelect: three candidates, each at index
\* Math.floor(Math.random() * candidates.length); a later one replaces the
\* best only when strictly fitter.
RECURSIVE SelectFrom(_, _, _, _, _)
SelectFrom(candidates, ps, draws, i, best) ==
    IF i > Len(draws) THEN best
    ELSE LET candidate == candidates[(draws[i] * Len(candidates)) \div 1000 + 1]
         IN  Let(IF best = NULL \/ ps[candidate].fitness > ps[best].fitness
                 THEN candidate ELSE best,
                 LAMBDA better : SelectFrom(candidates, ps, draws, i + 1, better))
tournamentSelect(candidates, ps, draws) == SelectFrom(candidates, ps, draws, 1, NULL)

\* A breed whose child is two generations after its parents
breedSkipping(p, partner, mutationRate, pick, chance, blend, mchance, amount) ==
    [ genome |-> mutate(crossover(p.genome, partner.genome, pick, chance, blend),
                        mutationRate, mchance, amount),
      generation |-> Max(p.generation, partner.generation) + 2 ]

\* Player.breed: the child's genome and generation
breed(p, partner, mutationRate, pick, chance, blend, mchance, amount) ==
    [ genome |-> mutate(crossover(p.genome, partner.genome, pick, chance, blend),
                        mutationRate, mchance, amount),
      generation |-> Max(p.generation, partner.generation) + 1 ]

\* Player.clone: a new player with a copy of the genome
clone(p) == NewPlayer(p.genome, p.name, p.generation)

\* The children one pass of evolve's breeding loop can produce from the
\* survivors, over the draws of rand.
Children(ps, survivors, mutationRate, rand) ==
    Let({tournamentSelect(survivors, ps, d) : d \in [1..3 -> rand]}, LAMBDA parents :
        { breed(ps[a], ps[b], mutationRate, pick, chance, blend, mchance, amount) :
            a \in parents, b \in parents,
            pick \in GeneDraws(rand), chance \in GeneDraws(rand),
            blend \in GeneDraws(rand), mchance \in GeneDraws(rand),
            amount \in GeneDraws(rand) })

\* evolve, first part: every agent's fitness is computed
WithFitness(ps, pop) ==
    [id \in DOMAIN ps |-> IF id \in Range(pop) THEN calculateFitness(ps[id]) ELSE ps[id]]

\* A selection in which the whole sorted population survives
SurvivorsAll(sorted) == sorted

\* Selection - top 50% survive
Survivors(sorted) == SubSeq(sorted, 1, CeilHalf(Len(sorted)))

\* An elite that is mutated like a child, every gene, by the lowest draw
EliteMutated(ps, survivors, generation) ==
    resetStats([clone(ps[survivors[1]]) EXCEPT
        !.generation = generation + 1,
        !.genome = mutate(@, 1000, [g \in GeneNames |-> 0], [g \in GeneNames |-> 0])])

\* Keep best performer (elitism): the clone takes the survivor's name and the
\* next generation number, its statistics reset.
Elite(ps, survivors, generation) ==
    resetStats([clone(ps[survivors[1]]) EXCEPT !.generation = generation + 1])

\* The identifiers of the objects evolve creates: the population's
\* identifiers are 1..n or n+1..2n, the new objects take the other half.
FreshBase(pop) == IF pop[1] <= Len(pop) THEN Len(pop) ELSE 0

\* A breeding loop that stops one agent short
RECURSIVE BreedRemainingShort(_, _, _)
BreedRemainingShort(newPopulation, size, kids) ==
    IF Len(newPopulation) + 1 < size
    THEN BreedRemainingShort(Append(newPopulation, Head(kids)), size, Tail(kids))
    ELSE newPopulation

\* evolve's breeding loop: while the new population is shorter than the old
\* one, the next child is appended.
RECURSIVE BreedRemaining(_, _, _)
BreedRemaining(newPopulation, size, kids) ==
    IF Len(newPopulation) < size
    THEN Let(Append(newPopulation, Head(kids)),
             LAMBDA longer : BreedRemaining(longer, size, Tail(kids)))
    ELSE newPopulation

\* An evolve whose elite is the best survivor itself, statistics and fitness
\* kept, with no reset at the end
evolveEliteKept(ps, pop, generation, nameCounter, kids) ==
    LET ps1 == WithFitness(ps, pop)
        sorted == SortByFitness(pop, ps1)
        created == BreedRemaining(
                     <<[ps1[sorted[1]] EXCEPT !.generation = generation + 1]>>, Len(pop),
                     [k \in 1..Len(kids) |->
                         NewPlayer(kids[k].genome, nameCounter + k, kids[k].generation)])
        base == FreshBase(pop)
        fresh == {base + i : i \in 1..Len(created)}
    IN  [ players |-> [id \in DOMAIN ps1 \cup fresh |->
                          IF id \in fresh THEN created[id - base] ELSE ps1[id]],
          population |-> [i \in 1..Len(created) |-> base + i],
          generation |-> generation + 1,
          nameCounter |-> nameCounter + Len(created) - 1 ]

\* EvolutionManager.evolve with the children kids the breeding loop's passes
\* produce (see Children).  The all-time ledger, which only the leaderboard
\* reads, is not modelled.
evolve(ps, pop, generation, nameCounter, kids) ==
    Let(WithFitness(ps, pop), LAMBDA ps1 :
      Let(SortByFitness(pop, ps1), LAMBDA sorted :
        Let(BreedRemaining(
              <<Elite(ps1, Survivors(sorted), generation)>>, Len(pop),
              [k \in 1..Len(kids) |->
                  NewPlayer(kids[k].genome, nameCounter + k, kids[k].generation)]),
            LAMBDA created :
          LET base == FreshBase(pop)
              fresh == {base + i : i \in 1..Len(created)}
          IN  [ players |-> [id \in DOMAIN ps1 \cup fresh |->
                                IF id \in fresh THEN resetStats(created[id - base])
                                ELSE ps1[id]],
                population |-> [i \in 1..Len(created) |-> base + i],
                generation |-> generation + 1,
                nameCounter |-> nameCounter + Len(created) - 1 ])))

\* The outcomes of evolve(mutationRate) over the draws of rand.
Evolutions(ps, pop, generation, nameCounter, mutationRate, rand) ==
    Let(WithFitness(ps, pop), LAMBDA ps1 :
      Let(Survivors(SortByFitness(pop, ps1)), LAMBDA survivors :
        Let(Children(ps1, survivors, mutationRate, rand), LAMBDA kidSet :
          { evolve(ps, pop, generation, nameCounter, kids) :
              kids \in [1..(Len(pop) - 1) -> kidSet] })))

\* EvolutionManager.initPopulation(size): size new players with random
\* genomes, named by the counter, generation 0.
initPopulation(size, nameCounter, draws) ==
    [ players |-> [i \in 1..size |->
                     NewPlayer(createRandomGenome(draws[i]), nameCounter + i, 0)],
      population |-> [i \in 1..size |-> i],
      generation |-> 1,
      nameCounter |-> nameCounter + size ]

\* ------------------------------------------------------------ pong
\* Lengths are in 1/1000 pixel, velocities in 1/1000 pixel per frame, angles
\* in 1/1000 radian, unit-free factors in thousandths.
CONFIG ==
    [ CANVAS_WIDTH |-> 800000, CANVAS_HEIGHT |-> 500000, PADDLE_WIDTH |-> 15000,
      PADDLE_HEIGHT |-> 80000, PADDLE_MARGIN |-> 30000, BALL_SIZE |-> 12000,
      BALL_SPEED |-> 6000, PADDLE_SPEED |-> 8000, MAX_BALL_SPEED |-> 15000 ]

\* The product of two values in thousandths
MulK(a, b) == (a * b) \div 1000

Abs(x) == IF x < 0 THEN 0 - x ELSE x
Sign(x) == IF x < 0 THEN 0 - 1 ELSE IF x > 0 THEN 1 ELSE 0

\* Math.cos and Math.sin by their series, exact to the unit for |a| <= 1.3 rad
cos(a) ==
    LET a2 == MulK(a, a)
        a4 == MulK(a2, a2)
        a6 == MulK(a4, a2)
    IN  1000 - a2 \div 2 + a4 \div 24 - a6 \div 720

sin(a) ==
    LET b == Abs(a)
        b2 == MulK(b, b)
        b3 == MulK(b2, b)
        b5 == MulK(b3, b2)
        b7 == MulK(b5, b2)
    IN  Sign(a) * (b - b3 \div 6 + b5 \div 120 - b7 \div 5040)

\* Math.sqrt, rounded down (Newton's iteration from x)
RECURSIVE SqrtFrom(_, _)
SqrtFrom(n, x) ==
    Let((x + n \div x) \div 2, LAMBDA y : IF y >= x THEN x ELSE SqrtFrom(n, y))
sqrt(n) == IF n = 0 THEN 0 ELSE SqrtFrom(n, n)

\* The runtime state of a new Player
NewRuntime(genome) ==
    [ genome |-> genome, reactionCounter |-> 0,
      lastTargetY |-> CONFIG.CANVAS_HEIGHT \div 2,
      smoothedY |-> CONFIG.CANVAS_HEIGHT \div 2 ]

\* calculateTarget's loop that folds a predicted position back into the court
RECURSIVE Bounced(_)
Bounced(predictY) ==
    IF predictY < 0 THEN Bounced(0 - predictY)
    ELSE IF predictY > CONFIG.CANVAS_HEIGHT
    THEN Bounced(2 * CONFIG.CANVAS_HEIGHT - predictY)
    ELSE predictY

\* calculateTarget, the target before noise, clamp and smoothing
RawTarget(genome, ball, isLeftSide) ==
    LET canvasHeight == CONFIG.CANVAS_HEIGHT
        paddleHeight == CONFIG.PADDLE_HEIGHT
        ballComingToUs == IF isLeftSide THEN ball.vx < 0 ELSE ball.vx > 0
        paddleX == IF isLeftSide THEN CONFIG.PADDLE_MARGIN
                   ELSE CONFIG.CANVAS_WIDTH - CONFIG.PADDLE_MARGIN
        distanceToBall == Abs(paddleX - ball.x)
        relativeDistance == (distanceToBall * 1000) \div CONFIG.CANVAS_WIDTH
        framesToReach == (distanceToBall * 1000) \div Abs(ball.vx)
        predictFrames == Min(framesToReach, genome.predictionFrames)
        predictY == IF ball.vx # 0 THEN Bounced(ball.y + MulK(ball.vy, predictFrames))
                    ELSE ball.y
        totalWeight == genome.trackingWeight + genome.predictionWeight
        combinedY == ball.y * genome.trackingWeight + predictY * genome.predictionWeight
        tracked == (IF totalWeight > 0 THEN combinedY \div totalWeight ELSE ball.y)
                     + MulK(genome.sweetSpotOffset, paddleHeight)
        angleDirection == IF ball.y > canvasHeight \div 2 THEN 0 - 1 ELSE 1
        centerY == canvasHeight \div 2
    IN  IF ballComingToUs
        THEN IF genome.offensiveAngling > 500 /\ relativeDistance < 300
             THEN tracked + angleDirection
                              * MulK((paddleHeight * 3) \div 10, genome.offensiveAngling - 500)
             ELSE tracked
        ELSE IF relativeDistance > genome.defensiveThreshold
             THEN MulK(centerY, genome.centerBias) + MulK(ball.y, 1000 - genome.centerBias)
             ELSE MulK(ball.y, genome.aggressiveness)
                    + MulK(centerY, 1000 - genome.aggressiveness)

\* A calculateTarget that reacts one call later: it waits while the counter
\* is at most reactionDelay
calculateTargetLate(player, ball, isLeftSide, errorDraw, jitterDraw) ==
    LET genome == player.genome
        paddleHeight == CONFIG.PADDLE_HEIGHT
        noisy == RawTarget(genome, ball, isLeftSide)
                   + (IF genome.errorRate > 0
                      THEN MulK(MulK(errorDraw - 500, paddleHeight), genome.errorRate)
                      ELSE 0)
                   + MulK(jitterDraw - 500, genome.jitterAmount)
        targetY == Max(paddleHeight \div 2,
                       Min(CONFIG.CANVAS_HEIGHT - paddleHeight \div 2, noisy))
        smoothedY == MulK(player.smoothedY, genome.movementSmoothing)
                       + MulK(targetY, 1000 - genome.movementSmoothing)
    IN  IF (player.reactionCounter + 1) * 1000 <= genome.reactionDelay
        THEN [ player |-> [player EXCEPT !.reactionCounter = @ + 1],
               target |-> player.lastTargetY ]
        ELSE [ player |-> [player EXCEPT !.reactionCounter = 0,
                                         !.smoothedY = smoothedY,
                                         !.lastTargetY = smoothedY],
               target |-> smoothedY ]

\* Player.calculateTarget(ball, paddle, isLeftSide) with the two draws of
\* Math.random() for the noise: the player after the call and the value
\* returned.
calculateTarget(player, ball, isLeftSide, errorDraw, jitterDraw) ==
    LET genome == player.genome
        paddleHeight == CONFIG.PADDLE_HEIGHT
        noisy == RawTarget(genome, ball, isLeftSide)
                   + (IF genome.errorRate > 0
                      THEN MulK(MulK(errorDraw - 500, paddleHeight), genome.errorRate)
                      ELSE 0)
                   + MulK(jitterDraw - 500, genome.jitterAmount)
        targetY == Max(paddleHeight \div 2,
                       Min(CONFIG.CANVAS_HEIGHT - paddleHeight \div 2, noisy))
        smoothedY == MulK(player.smoothedY, genome.movementSmoothing)
                       + MulK(targetY, 1000 - genome.movementSmoothing)
    IN  IF (player.reactionCounter + 1) * 1000 < genome.reactionDelay
        THEN [ player |-> [player EXCEPT !.reactionCounter = @ + 1],
               target |-> player.lastTargetY ]
        ELSE [ player |-> [player EXCEPT !.reactionCounter = 0,
                                         !.smoothedY = smoothedY,
                                         !.lastTargetY = smoothedY],
               target |-> smoothedY ]

\* A reset that starts the left side with a point
resetLeftAhead(draw) ==
    [ ball |-> [x |-> CONFIG.CANVAS_WIDTH \div 2, y |-> CONFIG.CANVAS_HEIGHT \div 2,
                vx |-> 0, vy |-> 0],
      leftPaddle |-> [x |-> CONFIG.PADDLE_MARGIN, y |-> CONFIG.CANVAS_HEIGHT \div 2],
      rightPaddle |-> [x |-> CONFIG.CANVAS_WIDTH - CONFIG.PADDLE_MARGIN,
                       y |-> CONFIG.CANVAS_HEIGHT \div 2],
      leftScore |-> 1, rightScore |-> 0, serving |-> TRUE,
      serveDirection |-> IF draw < 500 THEN 0 - 1 ELSE 1 ]

\* PongGame.reset with the draw for the serve direction
reset(draw) ==
    [ ball |-> [x |-> CONFIG.CANVAS_WIDTH \div 2, y |-> CONFIG.CANVAS_HEIGHT \div 2,
                vx |-> 0, vy |-> 0],
      leftPaddle |-> [x |-> CONFIG.PADDLE_MARGIN, y |-> CONFIG.CANVAS_HEIGHT \div 2],
      rightPaddle |-> [x |-> CONFIG.CANVAS_WIDTH - CONFIG.PADDLE_MARGIN,
                       y |-> CONFIG.CANVAS_HEIGHT \div 2],
      leftScore |-> 0, rightScore |-> 0, serving |-> TRUE,
      serveDirection |-> IF draw < 500 THEN 0 - 1 ELSE 1 ]

\* A serve that leaves the ball where it is
serveInPlace(g, draw) ==
    LET angle == MulK(draw - 500, 1047)
    IN  [g EXCEPT !.ball = [x |-> g.ball.x, y |-> g.ball.y,
                            vx |-> g.serveDirection * MulK(CONFIG.BALL_SPEED, cos(angle)),
                            vy |-> MulK(CONFIG.BALL_SPEED, sin(angle))],
                  !.serveDirection = 0 - @,
                  !.serving = FALSE]

\* A serve that keeps serveDirection
serveSameSide(g, draw) ==
    LET angle == MulK(draw - 500, 1047)
    IN  [g EXCEPT !.ball = [x |-> CONFIG.CANVAS_WIDTH \div 2,
                            y |-> CONFIG.CANVAS_HEIGHT \div 2,
                            vx |-> g.serveDirection * MulK(CONFIG.BALL_SPEED, cos(angle)),
                            vy |-> MulK(CONFIG.BALL_SPEED, sin(angle))],
                  !.serving = FALSE]

\* PongGame.serve with the draw for the angle, (Math.random() - 0.5) * PI / 3
serve(g, draw) ==
    LET angle == MulK(draw - 500, 1047)
    IN  [g EXCEPT !.ball = [x |-> CONFIG.CANVAS_WIDTH \div 2,
                            y |-> CONFIG.CANVAS_HEIGHT \div 2,
                            vx |-> g.serveDirection * MulK(CONFIG.BALL_SPEED, cos(angle)),
                            vy |-> MulK(CONFIG.BALL_SPEED, sin(angle))],
                  !.serveDirection = 0 - @,
                  !.serving = FALSE]

\* PongGame.movePaddle: the paddle's y after the move
movePaddle(paddle, targetY) ==
    LET diff == targetY - paddle.y
        maxMove == CONFIG.PADDLE_SPEED
        moved == IF Abs(diff) < maxMove THEN targetY ELSE paddle.y + Sign(diff) * maxMove
    IN  [paddle EXCEPT !.y = Max(CONFIG.PADDLE_HEIGHT \div 2,
                                 Min(CONFIG.CANVAS_HEIGHT - CONFIG.PADDLE_HEIGHT \div 2,
                                     moved))]

\* checkPaddleCollision, the hit position (ball.y - paddle.y) / (PADDLE_HEIGHT / 2)
HitPos(ball, paddle) == ((ball.y - paddle.y) * 1000) \div (CONFIG.PADDLE_HEIGHT \div 2)

\* checkPaddleCollision, the ball overlaps the paddle while moving towards it
Collides(ball, paddle, isLeft) ==
    LET paddleLeft == paddle.x - CONFIG.PADDLE_WIDTH \div 2
        paddleRight == paddle.x + CONFIG.PADDLE_WIDTH \div 2
        paddleTop == paddle.y - CONFIG.PADDLE_HEIGHT \div 2
        paddleBottom == paddle.y + CONFIG.PADDLE_HEIGHT \div 2
        ballLeft == ball.x - CONFIG.BALL_SIZE \div 2
        ballRight == ball.x + CONFIG.BALL_SIZE \div 2
        ballTop == ball.y - CONFIG.BALL_SIZE \div 2
        ballBottom == ball.y + CONFIG.BALL_SIZE \div 2
    IN  /\ ballLeft <= paddleRight
        /\ ballRight >= paddleLeft
        /\ IF isLeft THEN ball.vx < 0 ELSE ball.vx > 0
        /\ ballBottom >= paddleTop
        /\ ballTop <= paddleBottom

\* PongGame.checkPaddleCollision: the ball after the collision test
checkPaddleCollision(ball, paddle, isLeft) ==
    LET angle == MulK(HitPos(ball, paddle), 1047)
        speed == Min((sqrt(ball.vx * ball.vx + ball.vy * ball.vy) * 105) \div 100,
                     CONFIG.MAX_BALL_SPEED)
    IN  IF Collides(ball, paddle, isLeft)
        THEN [ x |-> IF isLeft
                     THEN paddle.x + CONFIG.PADDLE_WIDTH \div 2 + CONFIG.BALL_SIZE \div 2
                     ELSE paddle.x - CONFIG.PADDLE_WIDTH \div 2 - CONFIG.BALL_SIZE \div 2,
               y |-> ball.y,
               vx |-> MulK(speed, cos(angle)) * (IF isLeft THEN 1 ELSE 0 - 1),
               vy |-> MulK(speed, sin(angle)) ]
        ELSE ball

\* update, the ball after its move and the bounce off the top and bottom walls
MoveBall(ball) ==
    LET x == ball.x + ball.vx
        y == ball.y + ball.vy
        top == y - CONFIG.BALL_SIZE \div 2 <= 0
        y1 == IF top THEN CONFIG.BALL_SIZE \div 2 ELSE y
        vy1 == IF top THEN 0 - ball.vy ELSE ball.vy
        bottom == y1 + CONFIG.BALL_SIZE \div 2 >= CONFIG.CANVAS_HEIGHT
    IN  [ x |-> x,
          y |-> IF bottom THEN CONFIG.CANVAS_HEIGHT - CONFIG.BALL_SIZE \div 2 ELSE y1,
          vx |-> ball.vx,
          vy |-> IF bottom THEN 0 - vy1 ELSE vy1 ]

\* A scoring in which a ball leaving on the left counts for both sides
ScoringBoth(g) ==
    IF g.ball.x < 0
    THEN [ game |-> [g EXCEPT !.rightScore = @ + 1, !.leftScore = @ + 1,
                              !.serving = TRUE],
           scored |-> "right" ]
    ELSE IF g.ball.x > CONFIG.CANVAS_WIDTH
    THEN [ game |-> [g EXCEPT !.leftScore = @ + 1, !.serving = TRUE],
           scored |-> "left" ]
    ELSE [ game |-> g, scored |-> "null" ]

\* A scoring that gives the point to the side whose edge the ball crossed
ScoringSwapped(g) ==
    IF g.ball.x < 0
    THEN [ game |-> [g EXCEPT !.leftScore = @ + 1, !.serving = TRUE],
           scored |-> "left" ]
    ELSE IF g.ball.x > CONFIG.CANVAS_WIDTH
    THEN [ game |-> [g EXCEPT !.rightScore = @ + 1, !.serving = TRUE],
           scored |-> "right" ]
    ELSE [ game |-> g, scored |-> "null" ]

\* update, the scoring at the end of the step
Scoring(g) ==
    IF g.ball.x < 0
    THEN [ game |-> [g EXCEPT !.rightScore = @ + 1, !.serving = TRUE],
           scored |-> "right" ]
    ELSE IF g.ball.x > CONFIG.CANVAS_WIDTH
    THEN [ game |-> [g EXCEPT !.leftScore = @ + 1, !.serving = TRUE],
           scored |-> "left" ]
    ELSE [ game |-> g, scored |-> "null" ]

\* PongGame.update(leftPlayer, rightPlayer) with the draws of Math.random():
\* the game and the players after the step, the value returned, and the two
\* targets calculateTarget returned to it.
update(g, left, right, draws) ==
    Let(IF g.serving THEN serve(g, draws.angle) ELSE g, LAMBDA served :
      Let(calculateTarget(left, served.ball, TRUE, draws.leftError, draws.leftJitter),
          LAMBDA l :
        Let(calculateTarget(right, served.ball, FALSE, draws.rightError, draws.rightJitter),
            LAMBDA r :
          Let(movePaddle(served.leftPaddle, l.target), LAMBDA leftPaddle :
            Let(movePaddle(served.rightPaddle, r.target), LAMBDA rightPaddle :
              Let(checkPaddleCollision(
                    checkPaddleCollision(MoveBall(served.ball), leftPaddle, TRUE),
                    rightPaddle, FALSE), LAMBDA ball :
                Let(Scoring([served EXCEPT !.ball = ball, !.leftPaddle = leftPaddle,
                                           !.rightPaddle = rightPaddle]), LAMBDA s :
                  [ game |-> s.game, leftPlayer |-> l.player,
                    rightPlayer |-> r.player, scored |-> s.scored,
                    leftTarget |-> l.target, rightTarget |-> r.target ])))))))

\* ------------------------------------------------------------ controller
VARIABLES
    cfg,             \* the UI's values: population size n, matchesPerPairing m,
                     \* pointsToWin p, mutation rate, and the run's random values
    players,         \* the heap: identifier -> Player
    population,      \* evolution.population: identifiers
    generation,      \* evolution.generation
    tournamentCount, \* evolution.tournamentCount
    nameCounter,     \* the global nameCounter
    tplayers,        \* tournament.players
    bracket,         \* tournament.bracket (<<>>: no tournament yet)
    results,         \* tournament.results
    currentRound,    \* tournament.currentRound
    currentMatch,    \* tournament.currentMatch
    cur,             \* controller.currentMatch: <<round, index>> or <<>> (null)
    isRunning,       \* controller.isRunning
    timer,           \* pending setTimeout callbacks of endTournament
    error,           \* the uncaught exception that ended the run, or "none"
    game,            \* the PongGame: ball, paddles, scores, serving, serveDirection
    leftPlayer,      \* the game's left player: genome and runtime state
    rightPlayer,     \* the game's right player
    pointsToWin,     \* tournament.pointsToWin of the game being played
    scored,          \* what the last update() returned: "left", "right", "null"
    pointEvents,     \* update() calls since the last reset() that returned a side
    updates,         \* update() calls since the last reset()
    targets,         \* what calculateTarget returned to the last update() for the
                     \* left and the right player (<<>> before the first update())
    served,          \* the side the last serve() since reset() sent the ball to:
                     \* -1 left, 1 right, 0 before the first serve
    games,           \* reset() calls by the game loop
    isPaused,        \* controller.isPaused
    gameSpeed,       \* controller.gameSpeed
    frames,          \* gameLoop callbacks requested for the next animation frame
    steps,           \* passes of gameLoop's for loop in the last animation frame
    store,           \* the genome objects created so far, by identity: store[id]
                     \* holds the genes of object id
    agents,          \* the genome field of each agent: an object's identity
    flSmoothing,     \* genome.movementSmoothing of an agent, in floating point
    flSmoothedY,     \* the agent's smoothedY, in floating point
    flReturned,      \* what its calculateTarget returned last (<<>>: no call yet)
    pool,            \* genomes in floating point: the survivors that breed
    mutationRate,    \* the mutation rate they breed at, in thousandths
    bred             \* children bred from the pool

cycleVars == <<cfg, players, population, generation, tournamentCount, nameCounter,
               tplayers, bracket, results, currentRound, currentMatch, cur,
               isRunning, timer, error>>
pongVars == <<game, leftPlayer, rightPlayer, pointsToWin, scored, pointEvents,
              updates, targets, served, games>>
geneVars == <<pool, mutationRate, bred>>
loopVars == <<isPaused, gameSpeed, frames, steps>>
storeVars == <<store, agents>>
aimVars == <<flSmoothing, flSmoothedY, flReturned>>
vars == <<cycleVars, pongVars, geneVars, loopVars, storeVars, aimVars>>

\* The size of a configuration's tournament, see MaxWork.
Work(c) == (c.n - 1) * c.m * c.p * Cardinality(c.rand)

Configs ==
    { c \in [n : 1..MaxPop, m : 1..MaxSeries, p : 1..MaxPoints, rate : Rates,
             rand : {RandZero, RandAll}] :
        /\ Work(c) <= MaxWork
        /\ c.rand = RandAll => c.n \in VariedSizes
        /\ c.rand = RandZero => c.rate \in ZeroRates }

\* Tournaments explored in a run, see MaxBred and MaxSeats.
TournamentCap(c) ==
    IF c.rand = RandZero THEN Max(1, MaxSeats \div c.n)
    ELSE Max(1, MaxBred \div (c.n - 1))

\* The final scores the game loop hands to recordResult: the game ends at the
\* first point that takes a side to pointsToWin.
GameScores(p) == {<<p, k>> : k \in 0..(p - 1)} \cup {<<k, p>> : k \in 0..(p - 1)}

\* The controller's and its objects' state as one record.
World ==
    [ players |-> players, population |-> population, generation |-> generation,
      tournamentCount |-> tournamentCount, nameCounter |-> nameCounter,
      tplayers |-> tplayers, bracket |-> bracket, results |-> results,
      currentRound |-> currentRound, currentMatch |-> currentMatch,
      cur |-> cur, isRunning |-> isRunning, timer |-> timer, error |-> error ]

Cycle(w) ==
    /\ players' = w.players
    /\ population' = w.population
    /\ generation' = w.generation
    /\ tournamentCount' = w.tournamentCount
    /\ nameCounter' = w.nameCounter
    /\ tplayers' = w.tplayers
    /\ bracket' = w.bracket
    /\ results' = w.results
    /\ currentRound' = w.currentRound
    /\ currentMatch' = w.currentMatch
    /\ cur' = w.cur
    /\ isRunning' = w.isRunning
    /\ timer' = w.timer
    /\ error' = w.error
    /\ cfg' = cfg
    /\ UNCHANGED pongVars
    /\ UNCHANGED geneVars
    /\ UNCHANGED storeVars
    /\ UNCHANGED aimVars

\* A handler of the tournament cycle, which does not follow the animation
\* frames (see SpecLoop for them)
Becomes(w) ==
    /\ Cycle(w)
    /\ UNCHANGED loopVars

\* GameController.endTournament: the winner is read, the population evolves,
\* the next tournament is scheduled.  winner.name throws a TypeError when
\* getWinner() returns null, survivors[0].clone() in evolve when there is no
\* survivor.
endTournament(w) ==
    IF getWinner(w.bracket) = NULL \/ Len(w.population) = 0
    THEN { [w EXCEPT !.error = "TypeError"] }
    ELSE { [w EXCEPT !.players = e.players, !.population = e.population,
                     !.generation = e.generation, !.nameCounter = e.nameCounter,
                     !.timer = @ + 1] :
             e \in Evolutions(w.players, w.population, w.generation, w.nameCounter,
                              cfg.rate, cfg.rand) }

\* GameController.startNextMatch
startNextMatch(w) ==
    Let(getNextMatch(w.bracket, w.currentRound, w.currentMatch), LAMBDA g :
      Let([w EXCEPT !.bracket = g.bracket, !.currentRound = g.currentRound,
                    !.currentMatch = g.currentMatch, !.cur = g.ret],
          LAMBDA w1 : IF g.ret = <<>> THEN endTournament(w1) ELSE {w1}))

\* A startNewTournament whose new tournament keeps the old results list
startNewTournamentKeepResults(w) ==
    UNION { startNextMatch(
              [w EXCEPT !.players = [id \in Range(w.population) |-> w.players[id]],
                        !.tplayers = w.population,
                        !.bracket = generateBracket(shuffled),
                        !.currentRound = 0, !.currentMatch = 0,
                        !.tournamentCount = @ + 1]) :
            shuffled \in Shuffles(w.population) }

\* GameController.startNewTournament: a new Tournament over the population
\* replaces the old one, whose players are then unreachable and leave the heap.
startNewTournament(w) ==
    UNION { startNextMatch(
              [w EXCEPT !.players = [id \in Range(w.population) |-> w.players[id]],
                        !.tplayers = w.population,
                        !.bracket = generateBracket(shuffled),
                        !.results = <<>>,
                        !.currentRound = 0, !.currentMatch = 0,
                        !.tournamentCount = @ + 1]) :
            shuffled \in Shuffles(w.population) }

\* The Start button.  isRunning is set when startNewTournament has returned,
\* not when it threw.
start(w) ==
    { IF w2.error = "none" THEN [w2 EXCEPT !.isRunning = TRUE] ELSE w2 :
        w2 \in UNION { startNewTournament(
                         IF Len(w.population) = 0
                         THEN [w EXCEPT !.players = i.players,
                                        !.population = i.population,
                                        !.generation = i.generation,
                                        !.nameCounter = i.nameCounter]
                         ELSE w) :
                       i \in { initPopulation(cfg.n, w.nameCounter, draws) :
                                 draws \in [1..cfg.n -> GeneDraws(cfg.rand)] } } }

\* The players of the current match after the game's update() calls, each of
\* which calls calculateTarget on both.
Played(w) ==
    LET match == w.bracket[w.cur[1] + 1][w.cur[2] + 1]
    IN  [id \in DOMAIN w.players |->
            IF id \in {match.player1, match.player2}
            THEN [w.players[id] EXCEPT !.runtime = "played"]
            ELSE w.players[id]]

\* The game loop at the end of a game: the result is recorded; a decided
\* series moves on to the next match.
gameOver(w, leftScore, rightScore) ==
    Let(recordResult(w.bracket, w.results, Played(w), cfg.m, w.cur,
                     leftScore, rightScore), LAMBDA rr :
      Let([w EXCEPT !.bracket = rr.bracket, !.results = rr.results,
                    !.players = rr.players, !.error = rr.error],
          LAMBDA w1 : IF rr.complete THEN startNextMatch(w1) ELSE {w1}))

\* The tournament cycle takes a game as its final score (see GameScores); the
\* game itself is played in SpecPong.
NoGame ==
    /\ game = <<>>
    /\ leftPlayer = <<>>
    /\ rightPlayer = <<>>
    /\ pointsToWin = 0
    /\ scored = "null"
    /\ pointEvents = 0
    /\ updates = 0
    /\ targets = <<>>
    /\ served = 0
    /\ games = 0

\* No genome is followed in floating point.
NoGenes ==
    /\ pool = <<>>
    /\ mutationRate = 0
    /\ bred = 0

\* No target is followed in floating point.
NoAim ==
    /\ flSmoothing = 0
    /\ flSmoothedY = 0
    /\ flReturned = <<>>

\* Genome objects are not followed by identity.
NoStore ==
    /\ store = <<>>
    /\ agents = <<>>

\* The controller's flags as constructed; the tournament cycle does not follow
\* the animation frames.
NoLoop ==
    /\ isPaused = FALSE
    /\ gameSpeed = 1
    /\ frames = 0
    /\ steps = 0

\* The controller and its EvolutionManager as constructed: no population, no
\* tournament, nothing scheduled.
Boot ==
    /\ players = <<>>
    /\ population = <<>>
    /\ generation = 0
    /\ tournamentCount = 0
    /\ nameCounter = 0
    /\ tplayers = <<>>
    /\ bracket = <<>>
    /\ results = <<>>
    /\ currentRound = 0
    /\ currentMatch = 0
    /\ cur = <<>>
    /\ isRunning = FALSE
    /\ timer = 0
    /\ error = "none"

Init ==
    /\ cfg \in Configs
    /\ Boot
    /\ NoGame
    /\ NoGenes
    /\ NoLoop
    /\ NoStore
    /\ NoAim

\* An uncaught exception ends the run: no handler is followed after it.
Start ==
    /\ error = "none"
    /\ ~isRunning
    /\ \E w \in start(World) : Becomes(w)

GameOver ==
    /\ error = "none"
    /\ isRunning
    /\ cur # <<>>
    /\ \E s \in GameScores(cfg.p) : \E w \in gameOver(World, s[1], s[2]) : Becomes(w)

\* The callback endTournament scheduled
TimerFires ==
    /\ error = "none"
    /\ timer > 0
    /\ tournamentCount < TournamentCap(cfg)
    /\ IF isRunning
       THEN \E w \in startNewTournament([World EXCEPT !.timer = @ - 1]) : Becomes(w)
       ELSE Becomes([World EXCEPT !.timer = @ - 1])

Next == Start \/ GameOver \/ TimerFires

Spec == Init /\ [][Next]_vars

\* The values the UI's fields can hold are not checked by start(),
\* initPopulation() or evolve(): a population size of 0 and a mutation rate
\* outside [0, 1] reach the handlers as they are.
InvalidRates == {0 - 500, 1500}
InvalidConfigs ==
    { c \in [n : {0} \cup VariedSizes, m : 1..MaxSeries, p : 1..MaxPoints,
             rate : Rates \cup InvalidRates, rand : {RandZero}] :
        /\ c.n = 0 \/ c.rate \in InvalidRates
        /\ Work(c) <= MaxWork }

InitInvalid ==
    /\ cfg \in InvalidConfigs
    /\ Boot
    /\ NoGame
    /\ NoGenes
    /\ NoLoop
    /\ NoStore
    /\ NoAim

SpecInvalid == InitInvalid /\ [][Next]_vars

\* The game loop keeps running and every game ends: the hypothesis of claims
\* about playing a tournament to its end.  The bracket does not depend on the
\* draws of evolve, which are fixed here.
InitLive == Init /\ cfg.rand = RandZero
SpecLive == InitLive /\ [][Next]_vars /\ WF_vars(GameOver)

\* ------------------------------------------------------------ the Reset button
\* GameController.reset: a new EvolutionManager, no tournament, no current
\* match, isRunning false.  The global nameCounter keeps its value, and the
\* callback endTournament scheduled with setTimeout is not cancelled.
controllerReset(w) ==
    [w EXCEPT !.isRunning = FALSE, !.players = <<>>, !.population = <<>>,
              !.generation = 0, !.tournamentCount = 0, !.tplayers = <<>>,
              !.bracket = <<>>, !.results = <<>>, !.currentRound = 0,
              !.currentMatch = 0, !.cur = <<>>]

\* The Reset button is never disabled: it can be clicked in any state, also
\* while the callback of endTournament is pending.
\* Without a tournament a click changes nothing that is modelled.
ResetClick ==
    /\ error = "none"
    /\ nameCounter < MaxNames
    /\ bracket # <<>>
    /\ Becomes(controllerReset(World))

NextButtons == Next \/ ResetClick

\* The tournament cycle with the three handlers of Next and the Reset button.
SpecButtons == InitLive /\ [][NextButtons]_vars

\* ------------------------------------------------------------ the animation frames
\* Values of the speed slider
GameSpeeds == {1, 2}

\* One call of gameLoop that passed its guard: its update() calls end no game
\* or, when a match is current, one game.
gameLoop(w) ==
    {w} \cup (IF w.cur # <<>>
              THEN UNION { gameOver(w, s[1], s[2]) : s \in GameScores(cfg.p) }
              ELSE {})

\* The gameLoop callbacks of one animation frame, k of them, one after the
\* other.  None changes isRunning or isPaused, so all pass the guard or none.
RECURSIVE Callbacks(_, _)
Callbacks(w, k) ==
    IF k = 0 \/ w.error # "none" THEN {w}
    ELSE UNION { Callbacks(w1, k - 1) : w1 \in gameLoop(w) }

\* The Start button, enabled by the page and by reset(), disabled by start():
\* start() ends with a direct call of gameLoop(), which requests a callback.
StartClick ==
    /\ error = "none"
    /\ ~isRunning
    /\ frames < MaxFrames
    /\ \E w \in start(World) :
          IF w.error = "none"
          THEN /\ \E w1 \in gameLoop(w) : Cycle(w1)
               /\ isPaused' = FALSE
               /\ frames' = frames + 1
          ELSE /\ Cycle(w)
               /\ UNCHANGED <<isPaused, frames>>
    /\ UNCHANGED <<gameSpeed, steps>>

\* The Pause button, enabled by start() and disabled by reset(): togglePause
\* calls gameLoop() directly when it resumes.
PauseClick ==
    /\ error = "none"
    /\ isRunning
    /\ isPaused' = ~isPaused
    /\ IF isPaused
       THEN /\ frames < MaxFrames
            /\ \E w \in gameLoop(World) : Cycle(w)
            /\ frames' = frames + 1
       ELSE /\ Cycle(World)
            /\ frames' = frames
    /\ UNCHANGED <<gameSpeed, steps>>

\* The Reset button: reset() clears isRunning and isPaused and cancels
\* neither the callback of endTournament nor the requested animation frame.
LoopResetClick ==
    /\ error = "none"
    /\ nameCounter < MaxNames
    /\ bracket # <<>>
    /\ Cycle(controllerReset(World))
    /\ isPaused' = FALSE
    /\ UNCHANGED <<gameSpeed, frames, steps>>

\* The speed slider
SpeedInput ==
    /\ error = "none"
    /\ \E v \in GameSpeeds \ {gameSpeed} : gameSpeed' = v
    /\ Cycle(World)
    /\ UNCHANGED <<isPaused, frames, steps>>

\* The browser's next animation frame: every requested callback runs.  A
\* callback that finds the loop stopped or paused returns, any other makes
\* gameSpeed passes of its for loop and requests a callback for the frame
\* after.
Frame ==
    /\ error = "none"
    /\ frames > 0
    /\ IF isRunning /\ ~isPaused
       THEN /\ \E w \in Callbacks(World, frames) : Cycle(w)
            /\ frames' = frames
            /\ steps' = frames * gameSpeed
       ELSE /\ Cycle(World)
            /\ frames' = 0
            /\ steps' = 0
    /\ UNCHANGED <<isPaused, gameSpeed>>

\* The callback endTournament scheduled, between two animation frames
LoopTimerFires ==
    /\ TimerFires
    /\ UNCHANGED loopVars

\* The page with its buttons, its slider, its timer and its animation frames
LoopConfigs == { c \in Configs : c.rand = RandZero /\ c.n = 2 /\ c.m = 1 }

InitLoop ==
    /\ cfg \in LoopConfigs
    /\ Boot
    /\ NoGame
    /\ NoGenes
    /\ NoLoop
    /\ NoStore
    /\ NoAim

NextLoop ==
    StartClick \/ PauseClick \/ LoopResetClick \/ SpeedInput \/ Frame \/ LoopTimerFires

SpecLoop == InitLoop /\ [][NextLoop]_vars

\* ------------------------------------------------------------ one series of games
\* Genomes of four temperaments, as createRandomGenome makes them from
\* these draws: one that follows the ball at once, one that reacts every tenth
\* frame and moves a tenth of the way, one that follows the ball to meet it
\* with the paddle's edge, one that follows the ball every third frame
\* (reactionDelay is 3 exactly) and moves half of the way.  None has
\* positioning noise.
Sharp ==
    createRandomGenome(
        [g \in GeneNames |->
            IF g \in {"trackingWeight", "aggressiveness"} THEN 999
            ELSE IF g \in {"sweetSpotOffset", "defensiveThreshold"} THEN 500
            ELSE 0])
Sluggish ==
    createRandomGenome(
        [g \in GeneNames |->
            IF g \in {"predictionWeight", "predictionFrames", "centerBias",
                      "reactionDelay", "movementSmoothing"} THEN 999
            ELSE IF g \in {"sweetSpotOffset", "defensiveThreshold"} THEN 500
            ELSE 0])
Edge ==
    createRandomGenome(
        [g \in GeneNames |->
            IF g \in {"trackingWeight", "aggressiveness", "sweetSpotOffset"} THEN 999
            ELSE IF g = "offensiveAngling" THEN 700
            ELSE IF g = "defensiveThreshold" THEN 500
            ELSE 0])
Steady ==
    createRandomGenome(
        [g \in GeneNames |->
            IF g \in {"trackingWeight", "aggressiveness"} THEN 999
            ELSE IF g \in {"sweetSpotOffset", "defensiveThreshold"} THEN 500
            ELSE IF g = "reactionDelay" THEN 300
            ELSE IF g = "movementSmoothing" THEN 555
            ELSE 0])

\* The pairings played: <<left, right>>
Pairings == {<<Sluggish, Sharp>>, <<Sharp, Sluggish>>, <<Edge, Sluggish>>,
             <<Sluggish, Edge>>, <<Steady, Sluggish>>}

\* A draw that cannot change the outcome (the gene it multiplies is 0) is
\* fixed.
NoiseDraws(gene) == IF gene = 0 THEN RandZero ELSE RandAll

\* The draws of Math.random() of one update() call
UpdateDraws ==
    [ angle : IF game.serving THEN RandAll ELSE RandZero,
      leftError : NoiseDraws(leftPlayer.genome.errorRate),
      leftJitter : NoiseDraws(leftPlayer.genome.jitterAmount),
      rightError : NoiseDraws(rightPlayer.genome.errorRate),
      rightJitter : NoiseDraws(rightPlayer.genome.jitterAmount) ]

\* The game loop's test after a point: the game is won
GameWon == game.leftScore >= pointsToWin \/ game.rightScore >= pointsToWin

InitPong ==
    /\ cfg = <<>>
    /\ players = <<>>
    /\ population = <<>>
    /\ generation = 0
    /\ tournamentCount = 0
    /\ nameCounter = 0
    /\ tplayers = <<>>
    /\ bracket = <<>>
    /\ results = <<>>
    /\ currentRound = 0
    /\ currentMatch = 0
    /\ cur = <<>>
    /\ isRunning = TRUE
    /\ timer = 0
    /\ error = "none"
    /\ \E draw \in RandAll : game = reset(draw)
    /\ \E pair \in Pairings :
          /\ leftPlayer = NewRuntime(pair[1])
          /\ rightPlayer = NewRuntime(pair[2])
    /\ pointsToWin \in 1..MaxPoints
    /\ scored = "null"
    /\ pointEvents = 0
    /\ updates = 0
    /\ targets = <<>>
    /\ served = 0
    /\ games = 1
    /\ NoGenes
    /\ NoLoop
    /\ NoStore
    /\ NoAim

\* One pass of the game loop's for loop while the game is not won:
\* game.update(leftPlayer, rightPlayer)
Update ==
    /\ ~GameWon
    /\ updates < MaxUpdates
    /\ \E draws \in UpdateDraws :
          LET u == update(game, leftPlayer, rightPlayer, draws)
          IN  /\ game' = u.game
              /\ leftPlayer' = u.leftPlayer
              /\ rightPlayer' = u.rightPlayer
              /\ scored' = u.scored
              /\ pointEvents' = IF u.scored = "null" THEN pointEvents ELSE pointEvents + 1
              /\ targets' = <<u.leftTarget, u.rightTarget>>
              /\ served' = IF game.serving THEN Sign(serve(game, draws.angle).ball.vx)
                            ELSE served
    /\ updates' = updates + 1
    /\ UNCHANGED <<pointsToWin, games>>
    /\ UNCHANGED cycleVars
    /\ UNCHANGED geneVars
    /\ UNCHANGED loopVars
    /\ UNCHANGED storeVars
    /\ UNCHANGED aimVars

\* The game is won and the series goes on: game.reset() for its next game,
\* with the same two players.
Reset ==
    /\ GameWon
    /\ games < MaxGames
    /\ \E draw \in RandAll : game' = reset(draw)
    /\ scored' = "null"
    /\ pointEvents' = 0
    /\ updates' = 0
    /\ served' = 0
    /\ games' = games + 1
    /\ UNCHANGED <<leftPlayer, rightPlayer, pointsToWin, targets>>
    /\ UNCHANGED cycleVars
    /\ UNCHANGED geneVars
    /\ UNCHANGED loopVars
    /\ UNCHANGED storeVars
    /\ UNCHANGED aimVars

NextPong == Update \/ Reset

SpecPong == InitPong /\ [][NextPong]_vars

\* ------------------------------------------------------------ a tournament and its caller
\* A Tournament as any caller of its two public methods can drive it:
\* new Tournament(players) with its matchesPerPairing set and its bracket
\* generated, then getNextMatch() and recordResult(match, leftScore,
\* rightScore) in any order, match being
\* the slot getNextMatch returned last.  recordResult does not look at
\* match.completed, so nothing stops a call on a slot that is already decided.
RecordConfigs == { c \in Configs : c.rand = RandZero /\ c.n \in VariedSizes }

InitRecord ==
    /\ cfg \in RecordConfigs
    /\ \E draws \in [1..cfg.n -> GeneDraws(cfg.rand)] :
          LET i == initPopulation(cfg.n, 0, draws)
          IN  /\ players = i.players
              /\ population = i.population
              /\ generation = i.generation
              /\ nameCounter = i.nameCounter
              /\ tplayers = i.population
              /\ \E shuffled \in Shuffles(i.population) :
                    bracket = generateBracket(shuffled)
    /\ tournamentCount = 1
    /\ results = <<>>
    /\ currentRound = 0
    /\ currentMatch = 0
    /\ cur = <<>>
    /\ isRunning = FALSE
    /\ timer = 0
    /\ error = "none"
    /\ NoGame
    /\ NoGenes
    /\ NoLoop
    /\ NoStore
    /\ NoAim

\* tournament.getNextMatch()
GetNextMatch ==
    /\ LET g == getNextMatch(bracket, currentRound, currentMatch)
       IN  /\ bracket' = g.bracket
           /\ currentRound' = g.currentRound
           /\ currentMatch' = g.currentMatch
           /\ cur' = g.ret
    /\ UNCHANGED <<cfg, players, population, generation, tournamentCount,
                   nameCounter, tplayers, results, isRunning, timer, error>>
    /\ UNCHANGED pongVars
    /\ UNCHANGED geneVars
    /\ UNCHANGED loopVars
    /\ UNCHANGED storeVars
    /\ UNCHANGED aimVars

\* The games recorded in the bracket so far
GamesRecorded(b) ==
    Cardinality({ x \in (1..Len(b)) \X (1..MaxPop) \X (1..(MaxSeries + 1)) :
                    /\ x[2] <= Len(b[x[1]])
                    /\ x[3] <= Len(b[x[1]][x[2]].scores) })

\* The scores a caller can pass to recordResult, which tests neither of them:
\* any two point counts up to pointsToWin, equal ones included.
AnyScores(p) == (0..p) \X (0..p)

\* tournament.recordResult(match, leftScore, rightScore) on the slot last
\* returned, decided or not.
RecordResult ==
    /\ error = "none"
    /\ cur # <<>>
    /\ GamesRecorded(bracket) <= MaxSeries
    /\ \E s \in AnyScores(cfg.p) :
          LET rr == recordResult(bracket, results, players, cfg.m, cur, s[1], s[2])
          IN  /\ bracket' = rr.bracket
              /\ results' = rr.results
              /\ players' = rr.players
              /\ error' = rr.error
    /\ UNCHANGED <<cfg, population, generation, tournamentCount, nameCounter,
                   tplayers, currentRound, currentMatch, cur, isRunning, timer>>
    /\ UNCHANGED pongVars
    /\ UNCHANGED geneVars
    /\ UNCHANGED loopVars
    /\ UNCHANGED storeVars
    /\ UNCHANGED aimVars

NextRecord == GetNextMatch \/ RecordResult

SpecRecord == InitRecord /\ [][NextRecord]_vars

\* ------------------------------------------------------------ breeding in floating point
\* The values Math.random() returns here: 0, 0.2 and 0.9 as numbers, and 0
\* and 0.9 alone where the draw is only compared with a threshold.  One
\* call's value serves all genes of a genome.
FlRand == {Lit(0), Lit(200), Lit(900)}
FlDraws == { [g \in GeneNames |-> v] : v \in FlRand }
FlChances == { [g \in GeneNames |-> v] : v \in {Lit(0), Lit(900)} }

\* No tournament is played while genomes breed.
Idle ==
    /\ cfg = <<>>
    /\ Boot

\* Two agents of initPopulation: new Player() draws each genome with
\* createRandomGenome.
InitGenes ==
    /\ Idle
    /\ NoGame
    /\ NoLoop
    /\ NoStore
    /\ NoAim
    /\ \E d1, d2 \in FlDraws :
          pool = <<createRandomGenomeFl(d1), createRandomGenomeFl(d2)>>
    /\ mutationRate \in Rates
    /\ bred = 0

\* evolve, one pass of its breeding loop: tournamentSelect returns any
\* survivor, the same one twice or not; parent1.breed(parent2, mutationRate)
\* is mutate(crossover(...)); the child is among the agents that breed next.
Breed ==
    /\ bred < MaxChildren
    /\ \E i, j, k \in 1..2 : \E pick, chance, mchance \in FlChances :
          \E blend, amount \in FlDraws :
             pool' = [pool EXCEPT ![k] =
                        mutateFl(crossoverFl(pool[i], pool[j], pick, chance, blend),
                                 Lit(mutationRate), mchance, amount)]
    /\ bred' = bred + 1
    /\ UNCHANGED mutationRate
    /\ UNCHANGED cycleVars
    /\ UNCHANGED pongVars
    /\ UNCHANGED loopVars
    /\ UNCHANGED storeVars
    /\ UNCHANGED aimVars

NextGenes == Breed

SpecGenes == InitGenes /\ [][NextGenes]_vars

\* ------------------------------------------------------------ fitness of one agent
\* An agent with the statistics a tournament can leave it: wins + losses
\* series played, up to MaxSeries of each, and points scored and conceded.
StatRange == 0..(MaxSeries * MaxPoints)
Agents ==
    { [NewPlayer(createRandomGenome([g \in GeneNames |-> 0]), 1, 0)
         EXCEPT !.wins = w, !.losses = l, !.matchesPlayed = w + l,
                !.pointsFor = f, !.pointsAgainst = a] :
        w \in 0..MaxSeries, l \in 0..MaxSeries, f \in StatRange, a \in StatRange }

InitFitness ==
    /\ cfg = <<>>
    /\ players \in { <<p>> : p \in Agents }
    /\ population = <<1>>
    /\ generation = 1
    /\ tournamentCount = 0
    /\ nameCounter = 1
    /\ tplayers = <<>>
    /\ bracket = <<>>
    /\ results = <<>>
    /\ currentRound = 0
    /\ currentMatch = 0
    /\ cur = <<>>
    /\ isRunning = FALSE
    /\ timer = 0
    /\ error = "none"
    /\ NoGame
    /\ NoGenes
    /\ NoLoop
    /\ NoStore
    /\ NoAim

\* evolve's first statement: this.population.forEach(p => p.calculateFitness())
CalculateFitness ==
    /\ players' = [id \in DOMAIN players |-> calculateFitness(players[id])]
    /\ UNCHANGED <<cfg, population, generation, tournamentCount, nameCounter,
                   tplayers, bracket, results, currentRound, currentMatch, cur,
                   isRunning, timer, error>>
    /\ UNCHANGED pongVars
    /\ UNCHANGED geneVars
    /\ UNCHANGED loopVars
    /\ UNCHANGED storeVars
    /\ UNCHANGED aimVars

NextFitness == CalculateFitness

SpecFitness == InitFitness /\ [][NextFitness]_vars

\* ------------------------------------------------------------ genome objects
\* The genetic operators on objects: a genome is an object with an identity,
\* store[id] its genes, and an agent's genome field holds an identity.  Each
\* operator is given the store and the identities of its arguments and
\* returns the store after the call and the identity it returns.

\* crossover: const child = {} is a new object, every gene of which is
\* assigned; the parents are only read.
crossoverObj(s, parent1, parent2, pick, chance, blend) ==
    [ store |-> Append(s, crossover(s[parent1], s[parent2], pick, chance, blend)),
      ret |-> Len(s) + 1 ]

\* mutate: const mutated = { ...genome } is a new object with the genes
\* copied; the assignments go to the copy.
mutateObj(s, genome, rate, chance, amount) ==
    [ store |-> Append(s, mutate(s[genome], rate, chance, amount)),
      ret |-> Len(s) + 1 ]

\* Player.breed: new Player(childGenome, ...) keeps the object mutate returned.
breedObj(s, mine, partner, rate, pick, chance, blend, mchance, amount) ==
    Let(crossoverObj(s, mine, partner, pick, chance, blend), LAMBDA child :
        mutateObj(child.store, child.ret, rate, mchance, amount))

\* A clone that hands its own genome object to the new player
cloneShared(s, mine) ==
    [ store |-> s, ret |-> mine ]

\* Player.clone: new Player({ ...this.genome }, ...) keeps a new object with
\* the genes copied.
cloneObj(s, mine) ==
    [ store |-> Append(s, s[mine]), ret |-> Len(s) + 1 ]

\* Two agents as initPopulation creates them, each new Player() with the new
\* object createRandomGenome() returns.
InitStore ==
    /\ Idle
    /\ NoGame
    /\ NoGenes
    /\ NoLoop
    /\ NoAim
    /\ \E d1, d2 \in GeneDraws(RandAll) :
          store = <<createRandomGenome(d1), createRandomGenome(d2)>>
    /\ agents = <<1, 2>>

StoreUnchanged ==
    /\ UNCHANGED cycleVars
    /\ UNCHANGED pongVars
    /\ UNCHANGED geneVars
    /\ UNCHANGED loopVars
    /\ UNCHANGED aimVars

\* crossover(parent1, parent2) on the genomes of two agents; the caller
\* holds the result.
Crossover ==
    /\ Len(store) < MaxObjects
    /\ \E a, b \in Range(agents) : \E pick, chance, blend \in GeneDraws(RandAll) :
          store' = crossoverObj(store, a, b, pick, chance, blend).store
    /\ UNCHANGED agents
    /\ StoreUnchanged

\* mutate(genome, mutationRate) on any genome; the caller holds the result.
Mutate ==
    /\ Len(store) < MaxObjects
    /\ \E g \in 1..Len(store) : \E rate \in Rates :
          \E chance, amount \in GeneDraws(RandAll) :
             store' = mutateObj(store, g, rate, chance, amount).store
    /\ UNCHANGED agents
    /\ StoreUnchanged

\* evolve: a child of two agents joins them
BreedChild ==
    /\ Len(store) + 1 < MaxObjects
    /\ \E a, b \in Range(agents) : \E rate \in Rates :
          \E pick, chance, blend, mchance, amount \in GeneDraws(RandAll) :
             LET child == breedObj(store, a, b, rate, pick, chance, blend,
                                   mchance, amount)
             IN  /\ store' = child.store
                 /\ agents' = Append(agents, child.ret)
    /\ StoreUnchanged

\* evolve: the elite, a clone of an agent, joins them
CloneElite ==
    /\ Len(store) < MaxObjects
    /\ \E a \in Range(agents) :
          LET elite == cloneObj(store, a)
          IN  /\ store' = elite.store
              /\ agents' = Append(agents, elite.ret)
    /\ StoreUnchanged

NextStore == Crossover \/ Mutate \/ BreedChild \/ CloneElite

SpecStore == InitStore /\ [][NextStore]_vars

\* ------------------------------------------------------------ the target, in floating point
\* The end of calculateTarget as the JavaScript engine computes it (see the
\* genome in floating point): the clamp of targetY, the smoothing, the value
\* returned.

\* A length of the source, given in 1/1000 pixel.  Lengths are written in
\* units of 256 pixels: scaling by a power of two changes no rounding, and
\* the products stay within TLC's integers.
FlPx(t) == Fl(t * (Unit \div 256), 1000)

\* paddleHeight / 2 and canvasHeight - paddleHeight / 2
FlLow == FlMul(FlPx(CONFIG.PADDLE_HEIGHT), Half)
FlHigh == FlSub(FlPx(CONFIG.CANVAS_HEIGHT), FlLow)

\* targetY = Math.max(paddleHeight / 2, Math.min(canvasHeight - paddleHeight / 2, targetY))
clampFl(targetY) == Max(FlLow, Min(FlHigh, targetY))

\* smoothedY * genome.movementSmoothing + targetY * (1 - genome.movementSmoothing)
smoothFl(smoothedY, smoothing, targetY) ==
    FlAdd(FlMul(smoothedY, smoothing), FlMul(targetY, FlSub(Unit, smoothing)))

\* Values of movementSmoothing, a gene in [0, 0.9]
FlSmoothings == { Lit(100 * k) : k \in 0..9 }

\* Values of targetY before the clamp, below, in and above the range
FlRawTargets == { FlPx(50000 * k) : k \in 0..10 } \cup {FlLow, FlHigh}

\* A player as constructed: smoothedY = CONFIG.CANVAS_HEIGHT / 2
InitAim ==
    /\ Idle
    /\ NoGame
    /\ NoGenes
    /\ NoLoop
    /\ NoStore
    /\ flSmoothing \in FlSmoothings
    /\ flSmoothedY = FlMul(FlPx(CONFIG.CANVAS_HEIGHT), Half)
    /\ flReturned = <<>>

\* A reacting call of calculateTarget: the target is clamped, smoothed,
\* stored and returned.
React ==
    /\ \E raw \in FlRawTargets :
          flSmoothedY' = smoothFl(flSmoothedY, flSmoothing, clampFl(raw))
    /\ flReturned' = <<flSmoothedY'>>
    /\ UNCHANGED flSmoothing
    /\ UNCHANGED cycleVars
    /\ UNCHANGED pongVars
    /\ UNCHANGED geneVars
    /\ UNCHANGED loopVars
    /\ UNCHANGED storeVars

NextAim == React

SpecAim == InitAim /\ [][NextAim]_vars

\* ------------------------------------------------------------ properties
\* The slots of the current bracket, <<round, index>> counted from 1.
SlotRefs(b) == {<<r, m>> : r \in 1..Len(b), m \in 1..MaxPop} \cap
               UNION {{<<r, m>> : m \in 1..Len(b[r])} : r \in 1..Len(b)}
IsBye(slot) == slot.completed /\ slot.player1 # NULL /\ slot.player2 = NULL
IsSeries(slot) == slot.player1 # NULL /\ slot.player2 # NULL

\* The five per-tournament statistics of a player (all 0 for an object that
\* does not exist yet).
Stats(ps, id) ==
    IF id \in DOMAIN ps
    THEN <<ps[id].wins, ps[id].losses, ps[id].matchesPlayed,
           ps[id].pointsFor, ps[id].pointsAgainst>>
    ELSE <<0, 0, 0, 0, 0>>

\* C1: once a population exists it has exactly the configured size N, in
\* every state: evolve() replaces N agents by N agents, for even and odd N,
\* every mutation rate, and through consecutive tournament/evolve cycles.
C1_PopulationSizeStable ==
    population # <<>> => Len(population) = cfg.n

\* C1 witness: an odd population after two evolve() calls.
C1_Witness ==
    /\ generation >= 3
    /\ cfg.n = 3
    /\ Len(population) = 3

\* C2: the bracket of N >= 2 players has ceil(log2(N)) rounds (the k with
\* 2^(k-1) < N <= 2^k), round 1 has ceil(N/2) slots, every later round has
\* ceil(previous/2) slots, and the last round has exactly one slot.
C2_BracketShape ==
    (bracket # <<>> /\ Len(tplayers) >= 2) =>
        /\ Pow2(Len(bracket)) >= Len(tplayers)
        /\ Pow2(Len(bracket) - 1) < Len(tplayers)
        /\ 2 * Len(bracket[1]) \in {Len(tplayers), Len(tplayers) + 1}
        /\ \A r \in 2..Len(bracket) :
              2 * Len(bracket[r]) \in {Len(bracket[r - 1]), Len(bracket[r - 1]) + 1}
        /\ Len(bracket[Len(bracket)]) = 1

\* C2 witness: five players, three rounds of 3, 2 and 1 slots.
C2_Witness ==
    /\ Len(tplayers) = 5
    /\ Len(bracket) = 3
    /\ <<Len(bracket[1]), Len(bracket[2]), Len(bracket[3])>> = <<3, 2, 1>>

\* C3: a tournament that is played on ends: a match in progress leads to
\* getNextMatch() returning null (cur = <<>>), and whenever it has returned
\* null the final slot is completed and the winner is one of the tournament's
\* players.
C3_TournamentResolves ==
    /\ [](bracket # <<>> /\ cur = <<>> =>
            /\ isComplete(bracket)
            /\ getWinner(bracket) \in Range(tplayers))
    /\ [](cur # <<>> => <>(cur = <<>>))

\* C3 witness: a tournament of five players has ended with a champion.
C3_Witness ==
    /\ Len(tplayers) = 5
    /\ cur = <<>>
    /\ isComplete(bracket)
    /\ getWinner(bracket) \in Range(tplayers)

\* The completed two-player slots of the bracket that id played in.
SeriesOf(id) ==
    { ref \in SlotRefs(bracket) :
        LET slot == bracket[ref[1]][ref[2]]
        IN  slot.completed /\ IsSeries(slot) /\ id \in {slot.player1, slot.player2} }

\* The points id scored (own = TRUE) or conceded in the series of refs.
RECURSIVE PointsIn(_, _, _)
PointsIn(refs, id, own) ==
    IF refs = {} THEN 0
    ELSE LET ref == CHOOSE x \in refs : TRUE
             slot == bracket[ref[1]][ref[2]]
         IN  (IF (slot.player1 = id) = own
              THEN SumLeft(slot.scores) ELSE SumRight(slot.scores))
             + PointsIn(refs \ {ref}, id, own)

\* C4: a bye, of round 1 or by propagation, is completed with its single
\* player as winner and no recorded games, and adds nothing to any
\* statistic: every player's wins, losses, matchesPlayed, pointsFor and
\* pointsAgainst are those of the completed two-player series it played in.
C4_ByeChangesNoStats ==
    /\ \A ref \in SlotRefs(bracket) :
          LET slot == bracket[ref[1]][ref[2]]
          IN  (slot.completed /\ slot.player2 = NULL) =>
                  /\ slot.player1 # NULL
                  /\ slot.winner = slot.player1
                  /\ slot.scores = <<>>
    /\ \A id \in Range(tplayers) :
          Stats(players, id) =
            << Cardinality({ref \in SeriesOf(id) : bracket[ref[1]][ref[2]].winner = id}),
               Cardinality({ref \in SeriesOf(id) : bracket[ref[1]][ref[2]].winner # id}),
               Cardinality(SeriesOf(id)),
               PointsIn(SeriesOf(id), id, TRUE),
               PointsIn(SeriesOf(id), id, FALSE) >>

\* C4 witness: a player that advanced by the bye of round 1 and by a bye by
\* propagation in round 2 has no statistics, while a series has been played.
C4_Witness ==
    /\ Len(bracket) >= 2
    /\ \E m1 \in 1..Len(bracket[1]), m2 \in 1..Len(bracket[2]) :
          /\ IsBye(bracket[1][m1])
          /\ IsBye(bracket[2][m2])
          /\ bracket[2][m2].winner = bracket[1][m1].player1
          /\ Stats(players, bracket[2][m2].winner) = <<0, 0, 0, 0, 0>>
    /\ \E id \in Range(tplayers) : players[id].matchesPlayed > 0

\* The least k with 2k >= m: ceil(m / 2).
MajorityOf(m) == CHOOSE k \in 0..m : 2 * k >= m /\ 2 * (k - 1) < m
LeftWins(scores) == Cardinality({i \in 1..Len(scores) : scores[i][1] > scores[i][2]})
RightWins(scores) == Cardinality({i \in 1..Len(scores) : scores[i][2] > scores[i][1]})

\* C5: a series is completed exactly when one side has ceil(M/2) game wins,
\* and that side reached them with the last recorded game; a completed series
\* holds at most M games, and with M = 3 a 2-0 series holds exactly 2.
C5_SeriesDecision ==
    \A ref \in SlotRefs(bracket) :
        LET slot == bracket[ref[1]][ref[2]]
            before == SubSeq(slot.scores, 1, Len(slot.scores) - 1)
        IN  IsSeries(slot) =>
              /\ slot.completed <=>
                    \/ LeftWins(slot.scores) >= MajorityOf(cfg.m)
                    \/ RightWins(slot.scores) >= MajorityOf(cfg.m)
              /\ slot.completed =>
                    /\ LeftWins(before) < MajorityOf(cfg.m)
                    /\ RightWins(before) < MajorityOf(cfg.m)
                    /\ Len(slot.scores) <= cfg.m
              /\ (slot.completed /\ cfg.m = 3
                    /\ 0 \in {LeftWins(slot.scores), RightWins(slot.scores)})
                    => Len(slot.scores) = 2

\* C5 witness: best of 3 decided 2-0 after two games.
C5_Witness ==
    /\ cfg.m = 3
    /\ \E ref \in SlotRefs(bracket) :
          LET slot == bracket[ref[1]][ref[2]]
          IN  /\ IsSeries(slot) /\ slot.completed
              /\ Len(slot.scores) = 2

\* What a decided series adds to the statistics of its player id.
SeriesDelta(slot, id) ==
    << IF slot.winner = id THEN 1 ELSE 0,
       IF slot.winner = id THEN 0 ELSE 1,
       1,
       IF slot.player1 = id THEN SumLeft(slot.scores) ELSE SumRight(slot.scores),
       IF slot.player1 = id THEN SumRight(slot.scores) ELSE SumLeft(slot.scores) >>

\* The series of id that the step completes.
Decided(id) ==
    { ref \in SlotRefs(bracket) :
        /\ ~bracket[ref[1]][ref[2]].completed
        /\ bracket'[ref[1]][ref[2]].completed
        /\ IsSeries(bracket'[ref[1]][ref[2]])
        /\ id \in {bracket'[ref[1]][ref[2]].player1, bracket'[ref[1]][ref[2]].player2} }

\* C6: whatever recordResult calls are made on a slot, a player's statistics
\* change only in the step whose call decides one of its series, and then
\* once: wins or losses by 1, matchesPlayed by 1, pointsFor and pointsAgainst
\* by the sums of its side over all games recorded for that series.
\* recordResult counts the wins of the whole score list on every call and
\* does not test match.completed: a call on a decided slot finds the majority
\* reached again and adds the series to the statistics a second time (the
\* points of its earlier games included).  The game loop asks for the next
\* match as soon as recordResult returns true and so never makes that call.
C6_StatsOnceAtDecision ==
    [][tournamentCount' = tournamentCount =>
        \A id \in Range(tplayers) :
            /\ Cardinality(Decided(id)) <= 1
            /\ Decided(id) = {} => Stats(players', id) = Stats(players, id)
            /\ \A ref \in Decided(id) :
                  Stats(players', id) =
                    [i \in 1..5 |->
                        Stats(players, id)[i]
                          + SeriesDelta(bracket'[ref[1]][ref[2]], id)[i]]]_vars

\* C6 witness: a decided series with one more game recorded, whose winner has
\* two wins and whose two players have two matches played from that one slot.
C6_Witness ==
    \E ref \in SlotRefs(bracket) :
        LET slot == bracket[ref[1]][ref[2]]
        IN  /\ IsSeries(slot) /\ slot.completed
            /\ ref[1] = 1
            /\ Len(slot.scores) = MajorityOf(cfg.m) + 1
            /\ players[slot.winner].wins = 2
            /\ players[slot.player1].matchesPlayed = 2
            /\ players[slot.player2].matchesPlayed = 2

\* C7: between two reset() calls the sum of the two scores is the number of
\* update() calls that returned a side, and an update() call either changes
\* no score and returns null, or raises exactly one score by exactly 1 and
\* returns a side.
C7_ScoreCountsPointEvents ==
    /\ [](game.leftScore + game.rightScore = pointEvents)
    /\ [][updates' = updates + 1 =>
            /\ <<game'.leftScore - game.leftScore, game'.rightScore - game.rightScore>>
                  \in {<<0, 0>>, <<1, 0>>, <<0, 1>>}
            /\ scored' = "null" <=>
                  game'.leftScore + game'.rightScore
                    = game.leftScore + game.rightScore]_vars

\* C7 witness: two point events in one game, one for each side.
C7_Witness ==
    /\ pointEvents = 2
    /\ game.leftScore = 1
    /\ game.rightScore = 1
    /\ updates > 2

\* The old population's agents of highest fitness, once evolve has run.
Fittest ==
    { a \in Range(tplayers) :
        \A b \in Range(tplayers) : players[b].fitness <= players[a].fitness }

\* C8: after evolve() (the next tournament is scheduled) the new population
\* holds an agent whose genome equals, gene by gene, that of an agent of
\* highest fitness of the old population, at every mutation rate.
C8_EliteGenomeKept ==
    timer > 0 =>
        \E a \in Fittest : \E new \in Range(population) :
            players[new].genome = players[a].genome

\* C8 witness: mutation rate 100%, a single fittest agent in a population of
\* three; its genome is in the new population beside a different genome.
C8_Witness ==
    /\ timer > 0
    /\ cfg.rate = 1000
    /\ Len(tplayers) = 3
    /\ Cardinality(Fittest) = 1
    /\ \E a \in Fittest :
          /\ players[population[1]].genome = players[a].genome
          /\ \E new \in Range(population) : players[new].genome # players[a].genome
          /\ \E b \in Range(tplayers) : players[b].genome # players[a].genome

\* The byes of round 1.
FirstRoundByes == {m \in 1..Len(bracket[1]) : bracket[1][m].player2 = NULL}

\* C9: round 1 of a bracket of odd N has (N+1)/2 slots of which exactly one
\* is a bye, completed, won by its player and without games; round 1 of a
\* bracket of even N has N/2 slots and no bye.
C9_FirstRoundByes ==
    bracket # <<>> =>
        /\ \A m \in 1..Len(bracket[1]) : bracket[1][m].player1 # NULL
        /\ Len(tplayers) % 2 = 1 =>
              /\ 2 * Len(bracket[1]) = Len(tplayers) + 1
              /\ Cardinality(FirstRoundByes) = 1
              /\ \A m \in FirstRoundByes :
                    /\ bracket[1][m].completed
                    /\ bracket[1][m].winner = bracket[1][m].player1
                    /\ bracket[1][m].scores = <<>>
        /\ Len(tplayers) % 2 = 0 =>
              /\ 2 * Len(bracket[1]) = Len(tplayers)
              /\ FirstRoundByes = {}

\* C9 witness: the new bracket of five players, no game recorded yet: three
\* slots, the last one a completed bye.
C9_Witness ==
    /\ Len(tplayers) = 5
    /\ results = <<>>
    /\ \A m \in 1..Len(bracket[1]) : bracket[1][m].scores = <<>>
    /\ Len(bracket[1]) = 3
    /\ IsBye(bracket[1][3])
    /\ ~bracket[1][1].completed

\* C10: an agent with no match played has fitness exactly 0, also after
\* calculateFitness() has run on it.
C10_NoMatchNoFitness ==
    \A id \in DOMAIN players :
        players[id].matchesPlayed = 0 => players[id].fitness = 0

\* C10 witness: evolve() has computed the fitness of an agent that played no
\* match (the single agent of a population of one wins by a bye).
C10_Witness ==
    /\ timer > 0
    /\ \E id \in Range(tplayers) :
          /\ players[id].matchesPlayed = 0
          /\ players[id].fitness = 0

\* C11: every gene of every genome that createRandomGenome, crossover and
\* mutate produce lies in [def.min, def.max] of its gene.
\* A blend of two parents that both hold def.max need not be def.max: the
\* two products are rounded before they are added, and the sum can be the
\* next number above def.max; mutate clamps only the genes it selects.
C11_GenesWithinBounds ==
    \A i \in 1..Len(pool) : \A g \in GeneNames :
        /\ FlGenes[g].min <= pool[i][g]
        /\ pool[i][g] <= FlGenes[g].max

\* C11 witness: a bred genome whose movementSmoothing is above its maximum
\* while its other genes are within bounds.
C11_Witness ==
    /\ bred > 0
    /\ \E i \in 1..Len(pool) :
          /\ pool[i].movementSmoothing > FlGenes.movementSmoothing.max
          /\ \A g \in GeneNames \ {"movementSmoothing"} :
                /\ FlGenes[g].min <= pool[i][g]
                /\ pool[i][g] <= FlGenes[g].max

\* C12: with a population size of 0 or a mutation rate outside [0, 1] no
\* run starts or continues: no population is initialised, no tournament is
\* started, evolve() does not run, and nothing is thrown in the middle of a
\* run.
\* Nothing in start(), initPopulation() or evolve() looks at the values:
\* initPopulation(0) returns with an empty population and generation 1, and
\* the empty tournament then fails at winner.name with a TypeError; a rate
\* above 1 mutates every gene and a rate below 0 none, and the run goes on.
C12_InvalidConfigRejected ==
    (cfg.n < 1 \/ cfg.rate \notin 0..1000) =>
        /\ generation = 0
        /\ tournamentCount = 0
        /\ ~isRunning
        /\ error = "none"

\* C12 witness: a run with mutation rate 1.5 whose second tournament has
\* started after evolve().
C12_Witness ==
    /\ cfg.rate = 1500
    /\ isRunning
    /\ generation = 2
    /\ tournamentCount = 2
    /\ cur # <<>>

\* C13: with a population of at least 2 (series of at least 1 game to at
\* least 1 point, mutation rate in [0, 1]) no handler of the cycle throws:
\* recordResult finds both players of the slot, endTournament finds a winner
\* and evolve a survivor.
C13_NoErrorInCycle ==
    cfg.n >= 2 => error = "none"

\* C13 witness: a tournament of five players, with its byes, has been played
\* to the end and evolve() has run, nothing thrown.
C13_Witness ==
    /\ cfg.n = 5
    /\ timer > 0
    /\ generation = 2
    /\ Len(results) = 4
    /\ error = "none"

\* The numerator of the fitness formula: fitness is FitnessTimesMatches
\* divided by matchesPlayed.
FitnessTimesMatches(p) == 1000 * p.wins + 10 * (p.pointsFor - p.pointsAgainst)

Between(v, a, b) == Min(a, b) <= v /\ v <= Max(a, b)

\* The largest value createRandomGenome gives gene g under FlDraws.
LargestDrawn(g) ==
    CHOOSE v \in {createRandomGenomeFl(d)[g] : d \in FlDraws} :
        \A d \in FlDraws : createRandomGenomeFl(d)[g] <= v

C16_SlotsFedByWinners ==
    /\ [](\A r \in 2..Len(bracket) : \A j \in 1..Len(bracket[r]) :
            LET slot == bracket[r][j]
                prev == bracket[r - 1]
            IN  /\ slot.player1 # NULL =>
                      /\ 2 * j - 1 <= Len(prev)
                      /\ prev[2 * j - 1].completed
                      /\ prev[2 * j - 1].winner = slot.player1
                /\ slot.player2 # NULL =>
                      /\ 2 * j <= Len(prev)
                      /\ prev[2 * j].completed
                      /\ prev[2 * j].winner = slot.player2)
    /\ [][tournamentCount' = tournamentCount =>
            \A ref \in SlotRefs(bracket) :
                LET old == bracket[ref[1]][ref[2]]
                    new == bracket'[ref[1]][ref[2]]
                IN  /\ old.player1 # NULL => new.player1 = old.player1
                    /\ old.player2 # NULL => new.player2 = old.player2]_vars

\* C16 witness: the final of five players holds the winner of the second
\* round's series and the player that came through both byes.
C16_Witness ==
    /\ Len(tplayers) = 5
    /\ Len(bracket) = 3
    /\ IsSeries(bracket[3][1])
    /\ bracket[3][1].player1 = bracket[2][1].winner
    /\ bracket[3][1].player2 = bracket[1][3].player1
    /\ IsSeries(bracket[2][1])

\* C17: getNextMatch() returns null exactly when the final round's slot is
\* completed, and a slot it returns is not completed and has both players.
\* Stated of the value the controller holds from its last call (cur) and of
\* the value a call in the current state would return.
C17_NextMatchOrComplete ==
    bracket # <<>> =>
        /\ cur = <<>> <=> isComplete(bracket)
        /\ cur # <<>> =>
              LET slot == bracket[cur[1] + 1][cur[2] + 1]
              IN  ~slot.completed /\ slot.player1 # NULL /\ slot.player2 # NULL
        /\ LET g == getNextMatch(bracket, currentRound, currentMatch)
           IN  /\ g.ret = <<>> <=> isComplete(g.bracket)
               /\ g.ret # <<>> =>
                     LET slot == g.bracket[g.ret[1] + 1][g.ret[2] + 1]
                     IN  ~slot.completed /\ slot.player1 # NULL /\ slot.player2 # NULL

\* C17 witness: getNextMatch() has returned the final of five players, not
\* yet played, after skipping the completed byes.
C17_Witness ==
    /\ Len(tplayers) = 5
    /\ cur = <<2, 0>>
    /\ bracket[3][1].scores = <<>>
    /\ ~isComplete(bracket)

SlotsOf(id, r) ==
    { j \in 1..Len(bracket[r]) :
        id \in {bracket[r][j].player1, bracket[r][j].player2} }

C20_TieCountsForNeither ==
    \A r \in 1..Len(bracket) : \A j \in 1..Len(bracket[r]) :
        LET slot == bracket[r][j]
        IN  /\ P1Wins(slot.scores) = LeftWins(slot.scores)
            /\ P2Wins(slot.scores) = RightWins(slot.scores)
            /\ (slot.completed /\ slot.player1 # NULL /\ slot.player2 # NULL) =>
                  \/ LeftWins(slot.scores) >= MajorityOf(cfg.m)
                  \/ RightWins(slot.scores) >= MajorityOf(cfg.m)

\* A series of one game recorded with equal scores: the slot is completed and
\* player2 has won it.
C20_Witness ==
    /\ cfg.m = 1
    /\ \E j \in 1..Len(bracket[1]) :
          LET slot == bracket[1][j]
          IN  /\ Len(slot.scores) = 1
              /\ slot.scores[1][1] = slot.scores[1][2]
              /\ slot.completed
              /\ slot.player2 # NULL
              /\ slot.winner = slot.player2
              /\ players[slot.player2].wins = 1

\* C21: a recordResult call that returns false (the series is not yet
\* decided) only appends the score pair to the slot: in every step in which a
\* slot's score list changes and the slot is not completed afterwards, the
\* bracket differs from the old one by one pair appended to that slot's
\* scores (so its winner and completed flag are unchanged), and every agent's
\* statistics and the results list are unchanged.
C21_UndecidedOnlyAppends ==
    [][\A ref \in SlotRefs(bracket) \cap SlotRefs(bracket') :
          LET old == bracket[ref[1]][ref[2]]
              new == bracket'[ref[1]][ref[2]]
          IN  (new.scores # old.scores /\ ~new.completed) =>
                /\ \E s \in AnyScores(MaxPoints) :
                      bracket' = [bracket EXCEPT ![ref[1]][ref[2]].scores = Append(@, s)]
                /\ new.winner = old.winner
                /\ new.completed = old.completed
                /\ players' = players
                /\ results' = results]_vars

\* A series of three games of which two are recorded, one for each side: the
\* slot is open, nobody has a match or a point, and the results list is empty.
C21_Witness ==
    /\ cfg.m = 3
    /\ \E j \in 1..Len(bracket[1]) :
          LET slot == bracket[1][j]
          IN  /\ Len(slot.scores) = 2
              /\ slot.scores[1][1] > slot.scores[1][2]
              /\ slot.scores[2][2] > slot.scores[2][1]
              /\ ~slot.completed
              /\ slot.winner = NULL
    /\ results = <<>>
    /\ \A id \in Range(tplayers) : Stats(players, id) = <<0, 0, 0, 0, 0>>

\* C22: evolve() is invoked only after the current tournament is complete and
\* exactly once per tournament, and a new bracket is generated only after
\* that evolve() or at the initial Start; a bracket with unplayed matches is
\* never replaced, the delayed restart of endTournament included.  In every
\* step: a step that raises the generation of an existing population raises
\* it by one, from the tournament's number, with the bracket complete; and a
\* step that starts a tournament (tournamentCount grows) starts from no
\* bracket, or from a complete bracket whose generation has been bred.
C22_EvolveOncePerTournament ==
    [][/\ (generation # 0 /\ generation' # 0 /\ generation' # generation) =>
             /\ generation' = generation + 1
             /\ generation = tournamentCount'
             /\ isComplete(bracket')
       /\ (tournamentCount' = tournamentCount + 1) =>
             \/ bracket = <<>>
             \/ isComplete(bracket) /\ generation = tournamentCount + 1]_vars

\* Reset and Start were clicked while the restart of an ended tournament was
\* pending: a tournament of the new population is in progress, one series
\* decided and one match current, and the callback has not run yet.
C22_Witness ==
    /\ timer > 0
    /\ isRunning
    /\ generation = 1
    /\ tournamentCount = 1
    /\ nameCounter > 2 * cfg.n - 1
    /\ cur # <<>>
    /\ ~isComplete(bracket)
    /\ Len(results) = 1

\* The population has been bred from the tournament's players, which are
\* still there with their fitness until the next tournament starts.
Evolved ==
    /\ bracket # <<>>
    /\ isComplete(bracket)
    /\ generation = tournamentCount + 1

\* The sets of ceil(N/2) tournament players than which no other player is
\* strictly fitter
TopPools ==
    { S \in SUBSET Range(tplayers) :
        /\ Cardinality(S) = CeilHalf(Len(tplayers))
        /\ \A s \in S : \A o \in Range(tplayers) \ S :
              players[o].fitness <= players[s].fitness }

\* The agent at place i of the new population is a child two members of S
\* can breed at the configured rate.
BredFrom(S, i) ==
    \E a \in S : \E b \in S :
        /\ players[population[i]].generation
              = Max(players[a].generation, players[b].generation) + 1
        /\ \E pick \in GeneDraws(cfg.rand) : \E chance \in GeneDraws(cfg.rand) :
           \E blend \in GeneDraws(cfg.rand) : \E mchance \in GeneDraws(cfg.rand) :
           \E amount \in GeneDraws(cfg.rand) :
              players[population[i]].genome
                = breed(players[a], players[b], cfg.rate,
                        pick, chance, blend, mchance, amount).genome

\* C23: in evolve() the survivor pool is exactly the ceil(N/2) agents of
\* highest fitness (no non-survivor is strictly fitter than a survivor), and
\* both parents of every bred child are members of that pool: after every
\* evolve() there is such a pool that holds the elite's original and from two
\* of whose members each child of the new population was bred (its genome
\* and generation are those of a child of the two).
C23_ParentsAreSurvivors ==
    Evolved =>
        \E S \in TopPools :
            /\ players[population[1]].name \in {players[s].name : s \in S}
            /\ \A i \in 2..Len(population) : BredFrom(S, i)

\* Three agents have played and bred: the least fit of them differs in a gene
\* from the two survivors, and a child differs from the elite.
C23_Witness ==
    /\ Evolved
    /\ Len(tplayers) = 3
    /\ \E o \in Range(tplayers) : \E S \in TopPools :
          /\ o \notin S
          /\ \A s \in S : players[o].fitness < players[s].fitness
          /\ \A s \in S : players[o].genome # players[s].genome
    /\ \E i \in 2..Len(population) :
          players[population[i]].genome # players[population[1]].genome

\* C24: after evolve() returns, every agent of the new population, the elite
\* included, has wins = losses = pointsFor = pointsAgainst = matchesPlayed = 0
\* and fitness = 0.
C24_NewPopulationStatsZero ==
    Evolved =>
        \A i \in 1..Len(population) :
            /\ population[i] \in DOMAIN players
            /\ Stats(players, population[i]) = <<0, 0, 0, 0, 0>>
            /\ players[population[i]].fitness = 0

\* A population of three has been bred after a tournament that its elite's
\* original won with two series and a positive fitness.
C24_Witness ==
    /\ Evolved
    /\ Len(population) = 3
    /\ \E id \in Range(tplayers) :
          /\ players[id].name = players[population[1]].name
          /\ players[id].wins = 2
          /\ players[id].fitness > 0
    /\ Stats(players, population[1]) = <<0, 0, 0, 0, 0>>

\* The slots of bracket b that come before slot ref in round order: those of
\* an earlier round, and those of the same round with a lower index.  ref
\* counts from 0 as getNextMatch returns it, the slots from 1.
SlotsBefore(b, ref) ==
    { s \in SlotRefs(b) : s[1] < ref[1] + 1 \/ (s[1] = ref[1] + 1 /\ s[2] < ref[2] + 1) }

\* C25: getNextMatch() dispenses slots in round order.  Whenever a slot is
\* current, every slot of an earlier round and every slot of its round with a
\* lower index is completed, so a slot of round r+1 is returned only when
\* round r is completed and no slot is passed over; within a tournament the
\* slot returned never comes before the one returned before it; and when the
\* tournament is complete every slot is completed, each slot with two
\* players with at least one recorded game.
C25_SlotsInRoundOrder ==
    /\ [](cur # <<>> =>
            \A s \in SlotsBefore(bracket, cur) : bracket[s[1]][s[2]].completed)
    /\ []((bracket # <<>> /\ isComplete(bracket)) =>
            \A s \in SlotRefs(bracket) :
                /\ bracket[s[1]][s[2]].completed
                /\ IsSeries(bracket[s[1]][s[2]]) => bracket[s[1]][s[2]].scores # <<>>)
    /\ [][(cur # <<>> /\ cur' # <<>> /\ tournamentCount' = tournamentCount) =>
            \/ cur'[1] > cur[1]
            \/ cur'[1] = cur[1] /\ cur'[2] >= cur[2]]_vars

\* Five players: the slot returned is the final, in the third round, after
\* two series of the first round and one of the second; the second round's
\* other slot is the bye that was passed on.
C25_Witness ==
    /\ Len(tplayers) = 5
    /\ cur = <<2, 0>>
    /\ Len(results) = 3
    /\ IsBye(bracket[2][2])
    /\ \A s \in SlotsBefore(bracket, cur) : bracket[s[1]][s[2]].completed

\* The completed slots of the bracket with two players
CompletedSeries ==
    { s \in SlotRefs(bracket) :
        IsSeries(bracket[s[1]][s[2]]) /\ bracket[s[1]][s[2]].completed }

\* C26: a complete tournament over N >= 1 agents consists of exactly N - 1
\* completed two-player series, the results list has length N - 1, and every
\* other slot of the bracket is a bye.
C26_SeriesCount ==
    (bracket # <<>> /\ isComplete(bracket)) =>
        /\ Cardinality(CompletedSeries) = Len(tplayers) - 1
        /\ Len(results) = Len(tplayers) - 1
        /\ \A s \in SlotRefs(bracket) \ CompletedSeries : IsBye(bracket[s[1]][s[2]])

\* A complete tournament of five agents: four series, and two byes among its
\* six slots.
C26_Witness ==
    /\ isComplete(bracket)
    /\ Len(tplayers) = 5
    /\ Cardinality(SlotRefs(bracket)) = 6
    /\ Cardinality(CompletedSeries) = 4
    /\ Len(results) = 4
    /\ Cardinality({s \in SlotRefs(bracket) : IsBye(bracket[s[1]][s[2]])}) = 2

\* The player positions of round 1 that hold id: <<slot, side>>
FirstRoundSeats(id) ==
    { x \in (1..Len(bracket[1])) \X {1, 2} :
        id = IF x[2] = 1 THEN bracket[1][x[1]].player1 ELSE bracket[1][x[1]].player2 }

\* The bracket is as generateBracket() made it: no game has been recorded
\* and the first slot of the first round is the current match.
Fresh ==
    /\ bracket # <<>>
    /\ cur = <<0, 0>>
    /\ \A s \in SlotRefs(bracket) : bracket[s[1]][s[2]].scores = <<>>

\* C27: after generateBracket() every agent of the population occupies
\* exactly one player position of round 1 (no agent is dropped or
\* duplicated, and no position holds anyone else), and all later-round slots
\* are empty and not completed.
C27_BracketSeatsEveryone ==
    bracket # <<>> =>
        /\ \A id \in Range(tplayers) : Cardinality(FirstRoundSeats(id)) = 1
        /\ \A j \in 1..Len(bracket[1]) :
              {bracket[1][j].player1, bracket[1][j].player2} \subseteq
                  Range(tplayers) \cup {NULL}
        /\ Len(bracket[1]) = CeilHalf(Len(tplayers))
        /\ Fresh =>
              /\ Range(tplayers) = Range(population)
              /\ \A r \in 2..Len(bracket) : \A j \in 1..Len(bracket[r]) :
                    bracket[r][j] = MatchSlot(NULL, NULL)

\* A fresh bracket for five agents: three rounds, the three slots of the
\* first round seat all five, the three later slots are empty.
C27_Witness ==
    /\ Fresh
    /\ Len(tplayers) = 5
    /\ Len(bracket) = 3
    /\ UNION {{bracket[1][j].player1, bracket[1][j].player2} : j \in 1..3}
          = Range(population) \cup {NULL}
    /\ \A r \in 2..3 : \A j \in 1..Len(bracket[r]) :
          ~bracket[r][j].completed /\ bracket[r][j].player1 = NULL

\* C28: the game is in the Serving state exactly after reset() and after an
\* update() that returned a side, and in the Rallying state (serving = false)
\* after an update() that returned null; an update() in the Serving state
\* first re-centres the ball and gives it a non-zero horizontal velocity
\* before anything moves: the ball it leaves is one step of that velocity
\* away from the centre of the court, towards the side serveDirection named,
\* and serveDirection has changed sides.
C28_ServingAndRallying ==
    /\ [](game.serving <=> (updates = 0 \/ scored # "null"))
    /\ [][(updates' = updates + 1 /\ game.serving) =>
            /\ game'.ball.vx # 0
            /\ Sign(game'.ball.vx) = game.serveDirection
            /\ game'.ball.x - game'.ball.vx = CONFIG.CANVAS_WIDTH \div 2
            /\ game'.ball.y - game'.ball.vy = CONFIG.CANVAS_HEIGHT \div 2
            /\ game'.serveDirection = 0 - game.serveDirection
            /\ ~game'.serving
            /\ scored' = "null"]_vars

\* The first update() after a point: the ball, which had left the court, is
\* one step from the centre, and the game is rallying.
C28_Witness ==
    /\ game.leftScore + game.rightScore = 1
    /\ scored = "null"
    /\ ~game.serving
    /\ game.ball.vx # 0
    /\ game.ball.x - game.ball.vx = CONFIG.CANVAS_WIDTH \div 2
    /\ game.ball.y - game.ball.vy = CONFIG.CANVAS_HEIGHT \div 2

\* C29: update() returns 'right' and increments only rightScore exactly when
\* the ball's x is below 0 after the step, returns 'left' and increments only
\* leftScore exactly when the ball's x exceeds the canvas width, and
\* otherwise returns null and changes no score.
C29_ScoringByEdge ==
    [][updates' = updates + 1 =>
         /\ scored' = "right" <=> game'.ball.x < 0
         /\ scored' = "left" <=> game'.ball.x > CONFIG.CANVAS_WIDTH
         /\ scored' = "null" <=>
               (0 <= game'.ball.x /\ game'.ball.x <= CONFIG.CANVAS_WIDTH)
         /\ game'.rightScore = game.rightScore + (IF scored' = "right" THEN 1 ELSE 0)
         /\ game'.leftScore = game.leftScore + (IF scored' = "left" THEN 1 ELSE 0)]_vars

\* The ball has just left the court on the right and the left side has its
\* point, in a game in which the right side scored before.
C29_Witness ==
    /\ scored = "left"
    /\ game.ball.x > CONFIG.CANVAS_WIDTH
    /\ game.leftScore = 1
    /\ game.rightScore = 1
    /\ game.serving

\* C30: every score pair the game loop passes to recordResult has exactly one
\* side equal to pointsToWin and the other side strictly smaller (never a
\* tie), and every game of a series starts from 0-0 because the game is reset
\* between games.  The loop passes the scores at the first update() after
\* which a side has pointsToWin or more; no update() has run in a game yet
\* when updates = 0.
C30_FinalScores ==
    /\ [](GameWon => <<game.leftScore, game.rightScore>> \in GameScores(pointsToWin))
    /\ [](updates = 0 => (game.leftScore = 0 /\ game.rightScore = 0))
    /\ [][games' = games + 1 =>
            (GameWon /\ updates' = 0 /\ game'.leftScore = 0 /\ game'.rightScore = 0)]_vars

\* The second game of a series is won 2-1 by the left side.
C30_Witness ==
    /\ games = 2
    /\ pointsToWin = 2
    /\ GameWon
    /\ game.leftScore = 2
    /\ game.rightScore = 1

\* C31: within one game (between two reset() calls) consecutive serves go in
\* opposite horizontal directions, whichever side scored the point before:
\* every update() that serves when a serve was made before in the game sends
\* the ball to the side opposite to that serve's, and a serve goes left or
\* right.
C31_ServesAlternate ==
    [][(updates' = updates + 1 /\ game.serving) =>
          /\ served' \in {0 - 1, 1}
          /\ Sign(game'.ball.vx) = served'
          /\ served # 0 => served' = 0 - served]_vars

\* The third serve of a game, after a point for each side: it goes to the
\* side of the first.
C31_Witness ==
    /\ game.leftScore = 1
    /\ game.rightScore = 1
    /\ ~game.serving
    /\ served # 0
    /\ served = 0 - game.serveDirection
    /\ game.ball.x - game.ball.vx = CONFIG.CANVAS_WIDTH \div 2

\* C32: at the start of every tournament each agent's runtime state
\* (reactionCounter, lastTargetY, smoothedY) is at its initial value; state
\* accumulated during one tournament never carries into the next.  Every
\* step that starts a tournament (tournamentCount grows) leaves the
\* tournament's players with the runtime state of a new Player.
C32_RuntimeStateInitial ==
    [][tournamentCount' = tournamentCount + 1 =>
          \A id \in Range(tplayers') : players'[id].runtime = "initial"]_vars

\* A tournament has just started, no game recorded, with an agent that has
\* played in the tournament it replaced.
C32_Witness ==
    /\ tournamentCount = 2
    /\ generation = 1
    /\ Fresh
    /\ results = <<>>
    /\ \E id \in Range(tplayers) : players[id].runtime = "played"

\* One calculateTarget call of an update() step, on a player that is p
\* before and q after it and to which target is returned, prev being what
\* the call before returned (<<>>: there was none).  The counter is
\* incremented; while it has not reached reactionDelay the call returns the
\* value returned before and keeps lastTargetY and smoothedY, otherwise it
\* resets the counter to 0 and returns a target it stores in both.
ReactsWhenDue(p, q, target, prev) ==
    IF (p.reactionCounter + 1) * 1000 < p.genome.reactionDelay
    THEN /\ q.reactionCounter = p.reactionCounter + 1
         /\ q.lastTargetY = p.lastTargetY
         /\ q.smoothedY = p.smoothedY
         /\ target = p.lastTargetY
         /\ prev # <<>> => target = prev[1]
    ELSE /\ q.reactionCounter = 0
         /\ q.smoothedY = target
         /\ q.lastTargetY = target

\* C33: an agent with reactionDelay d recomputes its target only on calls
\* where its counter, incremented once per call, has reached d; on every
\* other call calculateTarget returns the previously returned value and
\* leaves lastTargetY and smoothedY unchanged, and on a recomputing call the
\* counter is reset to 0.
C33_ReactionDelay ==
    [][updates' = updates + 1 =>
          /\ ReactsWhenDue(leftPlayer, leftPlayer', targets'[1],
                           IF targets = <<>> THEN <<>> ELSE <<targets[1]>>)
          /\ ReactsWhenDue(rightPlayer, rightPlayer', targets'[2],
                           IF targets = <<>> THEN <<>> ELSE <<targets[2]>>)]_vars

\* The left player has reactionDelay 3: its counter has reached 2 after two
\* calls that returned the value of the last recomputing call, which was not
\* the centre.
C33_Witness ==
    /\ leftPlayer.genome.reactionDelay = 3000
    /\ leftPlayer.reactionCounter = 2
    /\ targets # <<>>
    /\ targets[1] = leftPlayer.lastTargetY
    /\ targets[1] # CONFIG.CANVAS_HEIGHT \div 2
    /\ updates > 3

\* The ball an update() step hands to the collision test of one paddle: moved,
\* bounced off the walls and, for the right paddle, past the test of the left
\* one.  A serving step starts the ball at the centre, far from both paddles.
BallAtPaddle(isLeft) ==
    IF isLeft THEN MoveBall(game.ball)
    ELSE checkPaddleCollision(MoveBall(game.ball), game'.leftPaddle, TRUE)

\* An update() step in which the ball collides with the paddle of one side
HitsPaddle(isLeft) ==
    /\ updates' = updates + 1
    /\ ~game.serving
    /\ Collides(BallAtPaddle(isLeft),
                IF isLeft THEN game'.leftPaddle ELSE game'.rightPaddle, isLeft)

\* The hit position of that collision, in thousandths
HitOffset(isLeft) ==
    HitPos(BallAtPaddle(isLeft),
           IF isLeft THEN game'.leftPaddle ELSE game'.rightPaddle)

\* C34: on every paddle collision the hit offset lies in [-1, 1], so that the
\* bounce angle, the offset times pi/3, never exceeds 60 degrees, also when
\* the ball only overlaps the edge of the paddle.
C34_HitOffsetInRange ==
    [][\A isLeft \in BOOLEAN :
          HitsPaddle(isLeft) =>
              /\ HitOffset(isLeft) \in (0 - 1000)..1000
              /\ Abs(MulK(HitOffset(isLeft), 1047)) <= 1047]_vars

\* C34, what does hold: the ball overlaps the paddle when its centre is within
\* PADDLE_HEIGHT / 2 + BALL_SIZE / 2 of the paddle's, so the offset lies in
\* [-1.15, 1.15].
C34_HitOffsetWithinOverlap ==
    [][\A isLeft \in BOOLEAN :
          HitsPaddle(isLeft) =>
              Abs(HitOffset(isLeft)) * (CONFIG.PADDLE_HEIGHT \div 2)
                  <= 1000 * (CONFIG.PADDLE_HEIGHT \div 2 + CONFIG.BALL_SIZE \div 2)]_vars

\* The ball has just been pushed out of the left paddle, which it met with its
\* centre beyond the paddle's end.
C34_Witness ==
    /\ game.ball.x = game.leftPaddle.x + CONFIG.PADDLE_WIDTH \div 2
                       + CONFIG.BALL_SIZE \div 2
    /\ game.ball.vx > 0
    /\ Abs(HitPos(game.ball, game.leftPaddle)) > 1000

\* C35: at most one game-loop chain is active at any time, after any
\* interleaving of Start, Pause/Resume and Reset clicks with animation-frame
\* callbacks: at most one gameLoop callback is requested for the next frame,
\* and an animation frame advances the simulation by at most gameSpeed passes
\* of the loop.
C35_OneLoopChain ==
    /\ [](frames <= 1)
    /\ [][Frame => steps' <= gameSpeed]_vars

\* Two chains are running: the last animation frame ran two callbacks, each
\* of which made gameSpeed passes and requested a callback of its own.
C35_Witness ==
    /\ isRunning
    /\ ~isPaused
    /\ frames = 2
    /\ steps = 2 * gameSpeed

\* C35, what does hold: a chain is added only by a click that calls gameLoop()
\* while a callback is still requested, and an animation frame makes gameSpeed
\* passes for each requested callback.
C35_ChainsGrowByClicks ==
    /\ [][frames' > frames => (~isRunning \/ isPaused) /\ isRunning' /\ ~isPaused']_vars
    /\ [][Frame => steps' \in {0, frames * gameSpeed}]_vars

\* C36: each agent's generation is at most the EvolutionManager's generation
\* counter; the counter is 1 after initPopulation() and increases by exactly 1
\* with each evolve().  A step that gives an empty population its members runs
\* initPopulation(), a step that replaces the members runs evolve(); start()
\* on a population of one runs both, the tournament ending as it starts.
C36_GenerationNumbers ==
    /\ [](\A i \in 1..Len(population) :
             players[population[i]].generation <= generation)
    /\ [][/\ (population = <<>> /\ population' # <<>>) =>
                generation' = IF Len(population') = 1 /\ error' = "none"
                              THEN 2 ELSE 1
          /\ (population # <<>> /\ population' # population /\ population' # <<>>) =>
                generation' = generation + 1
          /\ generation' # generation => population' # population]_vars

\* After the second evolve() the counter is 3: the elite has generation 3 and
\* a child of two children of the first evolve() has generation 2.
C36_Witness ==
    /\ generation = 3
    /\ players[population[1]].generation = 3
    /\ \E i \in 2..Len(population) : players[population[i]].generation = 2

\* The sum of one statistic over the players ids of heap ps
RECURSIVE Tally(_, _, _)
Tally(ps, ids, stat) ==
    IF ids = {} THEN 0
    ELSE LET id == CHOOSE x \in ids : TRUE
         IN  ps[id][stat] + Tally(ps, ids \ {id}, stat)

\* C37: in every state of a tournament, the wins of its players sum to the
\* same number as their losses and their pointsFor to the same number as their
\* pointsAgainst: each decided series adds one win and one loss, and each of
\* its points to one player's pointsFor and the other's pointsAgainst.
C37_StatsBalance ==
    /\ Tally(players, Range(tplayers), "wins")
         = Tally(players, Range(tplayers), "losses")
    /\ Tally(players, Range(tplayers), "pointsFor")
         = Tally(players, Range(tplayers), "pointsAgainst")

\* Two series have been decided with points on both sides, and one player has
\* more wins than losses and more points for than against.
C37_Witness ==
    /\ Tally(players, Range(tplayers), "wins") = 2
    /\ Tally(players, Range(tplayers), "pointsFor") >= 3
    /\ \E id \in Range(tplayers) :
          /\ players[id].wins > players[id].losses
          /\ players[id].pointsFor > players[id].pointsAgainst
          /\ players[id].pointsAgainst > 0

\* C38: crossover, mutate, breed and clone never modify the genomes passed to
\* them: every genome object that exists keeps its genes in every step and
\* each call returns an object that did not exist before; the elite clone's
\* genome is a separate copy, an object of its own with the genes of the
\* original's; and no two agents share genome storage.
C38_GenomesNotShared ==
    /\ [](\A i, j \in 1..Len(agents) : i # j => agents[i] # agents[j])
    /\ [][/\ Len(store') >= Len(store)
          /\ \A id \in 1..Len(store) : store'[id] = store[id]
          /\ agents' # agents =>
                /\ Len(agents') = Len(agents) + 1
                /\ agents'[Len(agents')] = Len(store')
                /\ Len(store') > Len(store)
          /\ (agents' # agents /\ Len(store') = Len(store) + 1) =>
                \E a \in Range(agents) : store'[Len(store')] = store[a]]_vars

\* Four agents: two of initPopulation with different genes, a clone of one
\* with the same genes in another object, and a child bred of the two whose
\* genes are neither parent's; every object passed along the way is as it was.
C38_Witness ==
    /\ Len(agents) = 4
    /\ Len(store) = 5
    /\ store[1] # store[2]
    /\ agents[3] = 3
    /\ store[3] = store[1]
    /\ agents[4] = 5
    /\ store[5] \notin {store[1], store[2], store[4]}

C39_PaddlesInRange ==
    LET low == CONFIG.PADDLE_HEIGHT \div 2
        high == CONFIG.CANVAS_HEIGHT - CONFIG.PADDLE_HEIGHT \div 2
    IN  /\ targets # <<>> => \A i \in 1..2 : low <= targets[i] /\ targets[i] <= high
        /\ game # <<>> =>
              /\ low <= game.leftPaddle.y /\ game.leftPaddle.y <= high
              /\ low <= game.rightPaddle.y /\ game.rightPaddle.y <= high

====
